---- MODULE Spec2Model ----
(***************************************************************************)
(* A model of the field-merge validator (OverlappingFieldsCanBeMergedRule) *)
(* and of field collection (collectFields / collectSubfields).             *)
(*                                                                         *)
(* A document is an AST value.  Every selection set carries the identity   *)
(* `id` of its SelectionSetNode object (the validator's cache and the      *)
(* `fieldMap === fieldMap2` test work on object identity).  All selections *)
(* share one record shape, whatever their kind.                            *)
(***************************************************************************)
EXTENDS Integers, Sequences, FiniteSets, TLC

VARIABLES
  doc,        \* the document under analysis (choice of its parts)
  vpos,       \* validator: number of SelectionSet nodes visited so far
  pairs,      \* validator: comparedFragmentPairs (PairSet._data)
  cache,      \* validator: cachedFieldsAndFragmentSpreads (node id -> parent type)
  errors,     \* validator: what context.reportError received, in order
  vstatus,    \* validator: "ok", "threw" (TypeError) or "overflow" (unbounded recursion)
  cin,        \* collector: the inputs of the pass (variable values, runtime type, ...)
  cout        \* collector: the result of the pass

vars == <<doc, vpos, pairs, cache, errors, vstatus, cin, cout>>

(***************************************************************************)
(* Schema (external collaborator): named types and their field definitions.*)
(***************************************************************************)
None == "None"

ObjectTypes == {"Query", "Dog", "Cat"}
InterfaceTypes == {"Pet", "Named"}
LeafTypes == {"Int", "String"}

isObjectType(t) == t \in ObjectTypes
isInterfaceType(t) == t \in InterfaceTypes
isAbstractType(t) == t \in InterfaceTypes
isLeafType(t) == t \in LeafTypes

\* schema.isSubType(abstractType, maybeSubType)
isSubType(abstract, t) ==
  \/ abstract = "Pet" /\ t \in {"Dog", "Cat"}
  \/ abstract = "Named" /\ t \in {"Dog", "Cat"}

\* typeFromAST on a named type node: the type when the schema knows it.
typeFromAST(tc) ==
  IF tc \in ObjectTypes \cup InterfaceTypes \cup LeafTypes THEN tc ELSE None

\* An output type: wrappers from the outside in ("L" list, "N" non-null)
\* around a named type.
Ty(w, n) == [wrap |-> w, named |-> n]
NoType == Ty(<<>>, None)

\* parentType.getFields()[fieldName].type; NoType when there is no definition.
getFields(parentType, fieldName) ==
  CASE parentType = "Query" ->
         (CASE fieldName = "a" -> Ty(<<>>, "Query")
            [] fieldName = "pet" -> Ty(<<>>, "Pet")
            [] fieldName = "foo" -> Ty(<<>>, "Int")
            [] fieldName = "bar" -> Ty(<<>>, "Int")
            [] fieldName = "str" -> Ty(<<>>, "String")
            [] fieldName = "lst" -> Ty(<<"L">>, "Int")
            [] OTHER -> NoType)
    [] parentType = "Pet" ->
         (CASE fieldName = "name" -> Ty(<<>>, "String")
            [] OTHER -> NoType)
    [] parentType = "Named" ->
         (CASE fieldName = "name" -> Ty(<<"N">>, "String")
            [] fieldName = "x" -> Ty(<<>>, "String")
            [] OTHER -> NoType)
    [] parentType = "Dog" ->
         (CASE fieldName = "name" -> Ty(<<>>, "String")
            [] fieldName = "x" -> Ty(<<>>, "Int")
            [] fieldName = "owner" -> Ty(<<>>, "Query")
            [] OTHER -> NoType)
    [] parentType = "Cat" ->
         (CASE fieldName = "name" -> Ty(<<>>, "String")
            [] fieldName = "x" -> Ty(<<>>, "String")
            [] fieldName = "owner" -> Ty(<<>>, "Query")
            [] OTHER -> NoType)
    [] OTHER -> NoType

\* getNamedType(type): undefined stays undefined
getNamedType(type) == type.named

(***************************************************************************)
(* AST values.                                                             *)
(***************************************************************************)
\* A value node: an int literal, a variable reference or an object literal
\* (its fields in source order).
IntV(i) == [k |-> "int", i |-> i, n |-> "", f |-> <<>>]
VarV(n) == [k |-> "var", i |-> 0, n |-> n, f |-> <<>>]
ObjV(f) == [k |-> "obj", i |-> 0, n |-> "", f |-> f]
Arg(n, v) == [name |-> n, value |-> v]

\* field.selectionSet === undefined
NoSet == [id |-> 0, sels |-> <<>>]
SelSet(id, sels) == [id |-> id, sels |-> sels]

NoStream == [on |-> FALSE, args |-> <<>>]
Stream(args) == [on |-> TRUE, args |-> args]

Sel(kind, alias, name, args, sub) ==
  [kind |-> kind, alias |-> alias, name |-> name, args |-> args,
   skip |-> "none", incl |-> "none", defer |-> "none", label |-> "",
   stream |-> NoStream, tc |-> "", sub |-> sub]

Field(alias, name, args) == Sel("Field", alias, name, args, NoSet)
FieldS(alias, name, sub) == Sel("Field", alias, name, <<>>, sub)
Spread(name, args) == Sel("Spread", "", name, args, NoSet)
Inline(tc, sub) == [Sel("Inline", "", "", <<>>, sub) EXCEPT !.tc = tc]
WithStream(s, st) == [s EXCEPT !.stream = st]
Skip(s, c) == [s EXCEPT !.skip = c]
Include(s, c) == [s EXCEPT !.incl = c]
Defer(s, c) == [s EXCEPT !.defer = c]

(***************************************************************************)
(* Value printing / canonicalisation and fragment-spread keys.             *)
(***************************************************************************)
\* The alphabet's order on the names the documents use (string `<`).
NameOrd(n) ==
  CASE n = "" -> 0 [] n = "A" -> 1 [] n = "B" -> 2 [] n = "C" -> 3
    [] n = "p" -> 4 [] n = "q" -> 5 [] n = "v" -> 6 [] n = "x" -> 7
    [] n = "y" -> 8 [] OTHER -> 9

RECURSIVE InsertByName(_, _)
InsertByName(sorted, e) ==
  IF sorted = <<>> THEN <<e>>
  ELSE IF NameOrd(e.name) < NameOrd(Head(sorted).name)
       THEN <<e>> \o sorted
       ELSE <<Head(sorted)>> \o InsertByName(Tail(sorted), e)

RECURSIVE SortByName(_)
SortByName(fs) ==
  IF fs = <<>> THEN <<>> ELSE InsertByName(SortByName(Tail(fs)), Head(fs))

\* sortValueNode: the fields of an object literal sorted by name (object
\* literals nest one level in the documents used here).
sortValueNode(v) == IF v.k = "obj" THEN [v EXCEPT !.f = SortByName(v.f)] ELSE v

\* print(value): the tokens of the printed text, in order.
RECURSIVE printFields(_, _)
printFields(fs, i) ==
  IF i > Len(fs) THEN <<>>
  ELSE (IF i > 1 THEN <<",">> ELSE <<>>)
       \o <<fs[i].name, ":">>
       \o (IF fs[i].value.k = "int" THEN <<ToString(fs[i].value.i)>>
           ELSE <<"$", fs[i].value.n>>)
       \o printFields(fs, i + 1)
print(v) ==
  CASE v.k = "int" -> <<ToString(v.i)>>
    [] v.k = "var" -> <<"$", v.n>>
    [] v.k = "bool" -> <<v.n>>
    [] OTHER -> <<"{">> \o printFields(v.f, 1) \o <<"}">>

stringifyValue(v) == print(sortValueNode(v))

\* keyForFragmentSpread: the fragment name, followed by the printed
\* arguments sorted by name when there are any.
keyForFragmentSpread(spread) ==
  [name |-> spread.name,
   args |-> SortByName([i \in 1..Len(spread.args) |->
                          Arg(spread.args[i].name, stringifyValue(spread.args[i].value))])]

\* The order of two keys as strings: by fragment name, then by the printed
\* arguments (no arguments first; spreads carry at most one argument: 1, 2
\* or an object literal, and "{" sorts after the digits).
KeyRank(key) ==
  NameOrd(key.name) * 100
    + (IF key.args = <<>> THEN 0
       ELSE 1 + NameOrd(key.args[1].name) * 10
              + (IF key.args[1].value = <<"1">> THEN 1
                 ELSE IF key.args[1].value = <<"2">> THEN 2 ELSE 3))
KeyLt(a, b) == KeyRank(a) < KeyRank(b)

(***************************************************************************)
(* PairSet                                                                 *)
(***************************************************************************)
\* The key of a pair as given, without ordering the two strings.
PairKeyAsGiven(a, b) == <<a, b>>

PairKey(a, b) == IF KeyLt(a, b) THEN <<a, b>> ELSE <<b, a>>

PairSetHas(data, a, b, areMutuallyExclusive) ==
  LET k == PairKey(a, b) IN
  IF k \notin DOMAIN data THEN FALSE
  ELSE IF areMutuallyExclusive THEN TRUE
       ELSE areMutuallyExclusive = data[k]

PairSetAdd(data, a, b, areMutuallyExclusive) ==
  LET k == PairKey(a, b) IN
  [x \in DOMAIN data \cup {k} |->
     IF x = k THEN areMutuallyExclusive ELSE data[x]]

EmptyPairSet == [x \in {} |-> FALSE]

(***************************************************************************)
(* Field maps: getFieldsAndFragmentSpreads and its cache.                  *)
(***************************************************************************)
\* getFieldEntryKey ignoring the alias.
getFieldEntryKeyNameOnly(node) == node.name

getFieldEntryKey(node) == IF node.alias # "" THEN node.alias ELSE node.name

\* Position of `key` in a keyed sequence (0 when absent).
RECURSIVE IndexOfKey(_, _, _)
IndexOfKey(seq, key, i) ==
  IF i > Len(seq) THEN 0
  ELSE IF seq[i].key = key THEN i ELSE IndexOfKey(seq, key, i + 1)

\* nodeAndDefs.get(responseName) / set / push: a Map keeps the order in
\* which its keys were first set.
PushNodeAndDef(nodeAndDefs, responseName, nodeAndDef) ==
  LET i == IndexOfKey(nodeAndDefs, responseName, 1) IN
  IF i = 0
  THEN Append(nodeAndDefs, [key |-> responseName, fields |-> <<nodeAndDef>>])
  ELSE [nodeAndDefs EXCEPT ![i].fields = Append(@, nodeAndDef)]

\* fragmentSpreads[key] = selection: an object keeps the order in which its
\* keys were first set; a later spread with the same key replaces the node.
SetFragmentSpread(fragmentSpreads, key, selection) ==
  LET i == IndexOfKey(fragmentSpreads, key, 1) IN
  IF i = 0
  THEN Append(fragmentSpreads, [key |-> key, node |-> selection])
  ELSE [fragmentSpreads EXCEPT ![i].node = selection]

RECURSIVE collectFieldsAndFragmentSpreads(_, _, _, _)
collectFieldsAndFragmentSpreads(parentType, sels, i, acc) ==
  IF i > Len(sels) THEN acc
  ELSE
    LET selection == sels[i] IN
    collectFieldsAndFragmentSpreads(parentType, sels, i + 1,
      CASE selection.kind = "Field" ->
             [acc EXCEPT !.nodeAndDefs =
                PushNodeAndDef(@, getFieldEntryKey(selection),
                  [parentType |-> parentType, node |-> selection,
                   def |-> IF isObjectType(parentType) \/ isInterfaceType(parentType)
                           THEN getFields(parentType, selection.name)
                           ELSE NoType])]
        [] selection.kind = "Spread" ->
             [acc EXCEPT !.fragmentSpreads =
                SetFragmentSpread(@, keyForFragmentSpread(selection), selection)]
        [] OTHER ->
             collectFieldsAndFragmentSpreads(
               IF selection.tc # "" THEN typeFromAST(selection.tc) ELSE parentType,
               selection.sub.sels, 1, acc))

\* The [fieldMap, fragmentSpreads] pair computed for `selectionSet` under
\* `parentType`; `id` is the identity of the cached object.
FieldsAndFragmentSpreads(parentType, selectionSet) ==
  LET r == collectFieldsAndFragmentSpreads(parentType, selectionSet.sels, 1,
             [nodeAndDefs |-> <<>>, fragmentSpreads |-> <<>>])
  IN [id |-> selectionSet.id, nodeAndDefs |-> r.nodeAndDefs,
      fragmentSpreads |-> r.fragmentSpreads]

\* A Map<string, ValueNode>: entries in first-insertion order; set() on a
\* key the map has replaces the value in place.
MapHas(map, key) == IndexOfKey(map, key, 1) # 0
MapSet(map, key, value) ==
  IF MapHas(map, key)
  THEN [map EXCEPT ![IndexOfKey(map, key, 1)].value = value]
  ELSE Append(map, [key |-> key, value |-> value])

\* for (const argument of argumentValues) substitutions.set(name, value);
\* an absent argument list is the empty sequence: nothing is set.
RECURSIVE SetArguments(_, _, _)
SetArguments(substitutions, argumentValues, i) ==
  IF i > Len(argumentValues) THEN substitutions
  ELSE SetArguments(MapSet(substitutions, argumentValues[i].name, argumentValues[i].value),
                    argumentValues, i + 1)

\* { kind: Kind.VARIABLE, name: { kind: Kind.NAME, value: '__UNSET' } }
UnsetMarker == VarV("__UNSET")

\* for (const variableDefinition of variableDefinitions) { ... }
RECURSIVE SetUnsupplied(_, _, _)
SetUnsupplied(substitutions, variableDefinitions, i) ==
  IF i > Len(variableDefinitions) THEN substitutions
  ELSE
    LET argumentName == variableDefinitions[i].name IN
    SetUnsupplied(
      IF MapHas(substitutions, argumentName) THEN substitutions
      ELSE IF variableDefinitions[i].hasDefault
      THEN MapSet(substitutions, argumentName, variableDefinitions[i].default)
      ELSE MapSet(substitutions, argumentName, UnsetMarker),
      variableDefinitions, i + 1)

\* fragmentArgumentSubstitutions without the spread's arguments.
fragmentArgumentSubstitutionsIgnoringArguments(variableDefinitions, argumentValues) ==
  SetUnsupplied(<<>>, variableDefinitions, 1)

fragmentArgumentSubstitutions(variableDefinitions, argumentValues) ==
  SetUnsupplied(SetArguments(<<>>, argumentValues, 1), variableDefinitions, 1)

\* fragmentDefinitionVariables.reduce(callback) without an initial value:
\* the accumulator starts as the first VariableDefinitionNode and the
\* callback runs for the second definition onwards.  `own` holds the
\* properties the callback spread into the accumulator.
RECURSIVE ReduceVariableDefinitions(_, _, _, _)
ReduceVariableDefinitions(acc, substitutions, fragmentDefinitionVariables, i) ==
  IF i > Len(fragmentDefinitionVariables) THEN acc
  ELSE
    LET key == fragmentDefinitionVariables[i].name IN
    ReduceVariableDefinitions(
      IF MapHas(substitutions, key)
      THEN [acc EXCEPT !.own =
              MapSet(@, key, substitutions[IndexOfKey(substitutions, key, 1)].value)]
      ELSE IF fragmentDefinitionVariables[i].hasDefault
      THEN [acc EXCEPT !.own = MapSet(@, key, fragmentDefinitionVariables[i].default)]
      ELSE acc,
      substitutions, fragmentDefinitionVariables, i + 1)

\* What substituteFragmentArguments returns for a fragment that declares
\* variables: the reduce() has no initial value, so the result is the first
\* VariableDefinitionNode (or a copy of it with substitutions spread in):
\* an object with no `selections`.
NotASelectionSet == [id |-> -1, sels |-> <<>>]
hasSelections(selectionSet) == selectionSet.id # NotASelectionSet.id

substituteFragmentArguments(def, fragmentSpread) ==
  IF Len(def.vars) = 0 THEN def.ss
  ELSE ReduceVariableDefinitions(
         [id |-> NotASelectionSet.id, sels |-> <<>>, node |-> def.vars[1], own |-> <<>>],
         SetArguments(<<>>, fragmentSpread.args, 1), def.vars, 2)

\* The validator's working state, threaded through every call:
\*   pairs, cache  the two caches of the run
\*   conflicts     the conflicts array the current call pushes to
\*   status        "ok", or how the run was cut short
\*   ret           the value the last call returned (a conflict, or NoConflict)
\*   compared      the calls of collectConflictsBetween made so far: the two
\*                 field maps (by selection set) and the flag.  It is only
\*                 recorded, never read by the algorithm
NoConflict ==
  [kind |-> "NONE", name |-> "", msg |-> "", sub |-> <<>>,
   selectionPath1 |-> <<>>, selectionPath2 |-> <<>>]

\* getFieldsAndFragmentSpreads: on a miss the entry is computed (iterating
\* selectionSet.selections, a TypeError when there are none) and cached
\* under the node.
getFieldsAndFragmentSpreads(st, parentType, selectionSet) ==
  IF selectionSet.id \in DOMAIN st.cache THEN st
  ELSE IF ~hasSelections(selectionSet) THEN [st EXCEPT !.status = "threw"]
  ELSE [st EXCEPT !.cache = (selectionSet.id :> parentType) @@ @]

\* cachedFieldsAndFragmentSpreads.get(selectionSet), for a cached node.
cached(st, selectionSet) ==
  FieldsAndFragmentSpreads(st.cache[selectionSet.id], selectionSet)

getReferencedFieldsAndFragmentSpreads(st, fragmentDef, fragmentSpread) ==
  LET fragmentSelectionSet == substituteFragmentArguments(fragmentDef, fragmentSpread) IN
  IF fragmentSelectionSet.id \in DOMAIN st.cache THEN st
  ELSE getFieldsAndFragmentSpreads(st, typeFromAST(fragmentDef.tc), fragmentSelectionSet)

(***************************************************************************)
(* Pairwise checks of findFieldConflicts.                                  *)
(***************************************************************************)
\* values2.get(name) of `new Map(args2.map(...))`: the last argument of
\* that name; 0 when there is none.
RECURSIVE LastIndexOfName(_, _, _)
LastIndexOfName(args, name, i) ==
  IF i = 0 THEN 0
  ELSE IF args[i].name = name THEN i ELSE LastIndexOfName(args, name, i - 1)

\* sameArguments comparing the arguments position by position, as written.
sameArgumentsInOrder(args1, args2) ==
  /\ Len(args1) = Len(args2)
  /\ \A i \in 1..Len(args1) :
       /\ args1[i].name = args2[i].name
       /\ print(args1[i].value) = print(args2[i].value)

sameArguments(args1, args2) ==
  IF Len(args1) = 0 THEN Len(args2) = 0
  ELSE IF Len(args2) = 0 THEN FALSE
  ELSE IF Len(args1) # Len(args2) THEN FALSE
  ELSE \A i \in 1..Len(args1) :
         LET j == LastIndexOfName(args2, args1[i].name, Len(args2)) IN
         /\ j # 0
         /\ stringifyValue(args1[i].value) = stringifyValue(args2[j].value)

\* sameStreams comparing only whether each field streams.
sameStreamsPresenceOnly(stream1, stream2) == stream1.on = stream2.on

\* getStreamDirective / sameStreams on the two nodes' directives.
sameStreams(stream1, stream2) ==
  IF ~stream1.on /\ ~stream2.on THEN TRUE
  ELSE IF stream1.on /\ stream2.on THEN sameArguments(stream1.args, stream2.args)
  ELSE FALSE

isListType(type) == type.wrap # <<>> /\ Head(type.wrap) = "L"
isNonNullType(type) == type.wrap # <<>> /\ Head(type.wrap) = "N"
ofType(type) == [type EXCEPT !.wrap = Tail(@)]

\* doTypesConflict comparing named types only when both are leaf types.
doTypesConflictBothLeaf(type1, type2) ==
  \/ type1.wrap # type2.wrap
  \/ (isLeafType(type1.named) /\ isLeafType(type2.named) /\ type1.named # type2.named)

RECURSIVE doTypesConflict(_, _)
doTypesConflict(type1, type2) ==
  IF isListType(type1)
  THEN (IF isListType(type2) THEN doTypesConflict(ofType(type1), ofType(type2)) ELSE TRUE)
  ELSE IF isListType(type2) THEN TRUE
  ELSE IF isNonNullType(type1)
  THEN (IF isNonNullType(type2) THEN doTypesConflict(ofType(type1), ofType(type2)) ELSE TRUE)
  ELSE IF isNonNullType(type2) THEN TRUE
  ELSE IF isLeafType(type1.named) \/ isLeafType(type2.named) THEN type1 # type2
  ELSE FALSE

\* areMutuallyExclusive for any two different parent types, object or not.
areMutuallyExclusiveFieldsAnyTypes(parentFieldsAreMutuallyExclusive, parentType1, parentType2) ==
  parentFieldsAreMutuallyExclusive \/ parentType1 # parentType2

\* The areMutuallyExclusive flag findFieldConflicts computes for a pair.
areMutuallyExclusiveFields(parentFieldsAreMutuallyExclusive, parentType1, parentType2) ==
  \/ parentFieldsAreMutuallyExclusive
  \/ (parentType1 # parentType2 /\ isObjectType(parentType1) /\ isObjectType(parentType2))

FieldConflict(responseName, msg, node1, node2) ==
  [kind |-> "FIELD", name |-> responseName, msg |-> msg, sub |-> <<>>,
   selectionPath1 |-> <<node1>>, selectionPath2 |-> <<node2>>]

RECURSIVE Flat(_)
Flat(seqs) == IF seqs = <<>> THEN <<>> ELSE Head(seqs) \o Flat(Tail(seqs))

\* A conflict's reason: kind, name and message (or the nested reasons).
ReasonOf(c) == [kind |-> c.kind, name |-> c.name, msg |-> c.msg, sub |-> c.sub]

\* subfieldConflicts folding only the first nested conflict.
subfieldConflictsFirstOnly(conflicts, responseName, node1, node2) ==
  IF Len(conflicts) > 0
  THEN [kind |-> "FIELD", name |-> responseName, msg |-> "nested",
        sub |-> <<ReasonOf(conflicts[1])>>,
        selectionPath1 |-> <<node1>> \o conflicts[1].selectionPath1,
        selectionPath2 |-> <<node2>> \o conflicts[1].selectionPath2]
  ELSE NoConflict

subfieldConflicts(conflicts, responseName, node1, node2) ==
  IF Len(conflicts) > 0
  THEN [kind |-> "FIELD", name |-> responseName, msg |-> "nested",
        sub |-> [i \in 1..Len(conflicts) |-> ReasonOf(conflicts[i])],
        selectionPath1 |->
          <<node1>> \o Flat([i \in 1..Len(conflicts) |-> conflicts[i].selectionPath1]),
        selectionPath2 |->
          <<node2>> \o Flat([i \in 1..Len(conflicts) |-> conflicts[i].selectionPath2])]
  ELSE NoConflict

(***************************************************************************)
(* Documents checked by the validator: an operation on Query, fragments A  *)
(* and B on Query, and optionally a fragment C defined before the          *)
(* operation.  `doc` chooses each part.                                    *)
(***************************************************************************)
fooX(alias, i) == Field(alias, "foo", <<Arg("x", IntV(i))>>)
PQ == ObjV(<<Arg("p", IntV(1)), Arg("q", IntV(2))>>)
QP == ObjV(<<Arg("q", IntV(2)), Arg("p", IntV(1))>>)
sA == Spread("A", <<>>)
sB == Spread("B", <<>>)

VRootSelections(r) ==
  CASE r = 1 -> <<fooX("a", 1), fooX("a", 2)>>
    [] r = 2 -> <<Field("a", "foo", <<>>), Field("a", "bar", <<>>)>>
    [] r = 3 -> <<Field("a", "foo", <<Arg("x", PQ), Arg("y", IntV(1))>>),
                  Field("a", "foo", <<Arg("y", IntV(1)), Arg("x", QP)>>)>>
    [] r = 4 -> <<Field("a", "foo", <<>>), sA>>
    [] r = 5 -> <<FieldS("", "a", SelSet(2, <<sA>>)), sA>>
    [] r = 6 -> <<FieldS("p1", "a", SelSet(2, <<Field("a", "foo", <<>>), sA>>)),
                  FieldS("p2", "a", SelSet(3, <<Field("a", "foo", <<>>), sA>>))>>
    [] r = 7 -> <<sA, sB>>
    [] r = 8 -> <<FieldS("", "pet", SelSet(2,
                    <<Inline("Dog", SelSet(3, <<Field("", "x", <<>>)>>)),
                      Inline("Cat", SelSet(4, <<Field("", "x", <<>>)>>))>>))>>
    [] r = 9 -> <<FieldS("", "pet", SelSet(2,
                    <<Inline("Dog", SelSet(3, <<Field("n", "name", <<>>),
                                                Field("m", "name", <<Arg("x", IntV(1))>>)>>)),
                      Inline("Cat", SelSet(4, <<Field("n", "x", <<>>),
                                                Field("m", "name", <<Arg("x", IntV(2))>>)>>))>>))>>
    [] r = 10 -> <<FieldS("", "pet", SelSet(2,
                    <<Inline("Dog", SelSet(3, <<Field("", "x", <<>>)>>)),
                      Inline("Named", SelSet(4, <<Field("", "x", <<>>)>>))>>))>>
    [] r = 11 -> <<FieldS("", "a", SelSet(2, <<Field("a", "foo", <<>>)>>)),
                   FieldS("", "a", SelSet(3, <<Field("a", "bar", <<>>)>>))>>
    [] r = 12 -> <<FieldS("", "pet", SelSet(2,
                    <<Inline("Pet", SelSet(3, <<Field("n", "name", <<>>)>>)),
                      Inline("Named", SelSet(4, <<Field("n", "x", <<>>)>>))>>))>>
    [] r = 13 -> <<Field("a", "foo", <<>>), Field("a", "foo", <<>>)>>
    [] r = 14 -> <<Spread("A", <<Arg("v", IntV(1))>>), Spread("A", <<Arg("v", IntV(2))>>)>>
    [] r = 15 -> <<FieldS("", "pet", SelSet(2,
                    <<Inline("Dog", SelSet(3, <<FieldS("", "owner", SelSet(4,
                        <<Spread("A", <<Arg("v", IntV(1))>>)>>))>>)),
                      Inline("Cat", SelSet(5, <<FieldS("", "owner", SelSet(6,
                        <<Spread("A", <<Arg("v", IntV(2))>>)>>))>>))>>))>>
    [] OTHER -> <<Spread("A", <<Arg("v", PQ)>>), Spread("A", <<Arg("v", QP)>>),
                  Spread("A", <<Arg("v", IntV(1))>>), Spread("A", <<Arg("v", IntV(1))>>)>>
VRoots == 1..16

\* A root selection `pet` whose two `owner` fields are selected under type
\* conditions t1 and t2: the owners' sub-selections differ in the field
\* behind `a`, directly and one level down, and spread A and B.
VExclusivityRoot(t1, t2) ==
  <<FieldS("", "pet", SelSet(2,
      <<Inline(t1, SelSet(3, <<FieldS("", "owner", SelSet(4,
          <<Field("a", "foo", <<>>),
            FieldS("o", "a", SelSet(5, <<Field("a", "foo", <<>>)>>)), sA>>))>>)),
        Inline(t2, SelSet(6, <<FieldS("", "owner", SelSet(7,
          <<Field("a", "bar", <<>>),
            FieldS("o", "a", SelSet(8, <<Field("a", "bar", <<>>)>>)), sB>>))>>))>>))>>

VFragASelections(a) ==
  CASE a = 1 -> <<Field("a", "bar", <<>>)>>
    [] a = 2 -> <<sB>>
    [] a = 3 -> <<FieldS("", "a", SelSet(21, <<FieldS("", "a", SelSet(22, <<sA>>))>>))>>
    [] a = 4 -> <<Field("a", "foo", <<>>)>>
    [] a = 5 -> <<sA, Field("a", "foo", <<>>), Field("a", "bar", <<>>)>>
    [] OTHER -> <<FieldS("", "a", SelSet(21, <<sB>>))>>
VFragAs == 1..6

VFragBSelections(b) ==
  CASE b = 1 -> <<Field("a", "bar", <<>>)>>
    [] b = 2 -> <<sA>>
    [] b = 3 -> <<FieldS("", "a", SelSet(31, <<Field("a", "bar", <<>>), sA>>))>>
    [] OTHER -> <<Field("a", "foo", <<>>)>>
VFragBs == 1..4

VarDef(name, hasDefault, default) ==
  [name |-> name, hasDefault |-> hasDefault, default |-> default]

OpDef(operation, ss) ==
  [kind |-> "operation", operation |-> operation, name |-> "", tc |-> "",
   vars |-> <<>>, ss |-> ss]
FragmentDefinition(name, tc, vardefs, ss) ==
  [kind |-> "fragment", operation |-> "", name |-> name, tc |-> tc,
   vars |-> vardefs, ss |-> ss]

\* The definitions of a validator document, in document order.
VDefinitions(d) ==
  (IF d.pre = 1
   THEN <<FragmentDefinition("C", "Query", <<>>, SelSet(10, <<sA>>))>>
   ELSE <<>>)
  \o <<OpDef("query", SelSet(1, IF d.r = 0 THEN VExclusivityRoot(d.t1, d.t2)
                                 ELSE VRootSelections(d.r))),
       FragmentDefinition("A", "Query",
         IF d.av = 1 THEN <<VarDef("v", FALSE, "unset")>> ELSE <<>>,
         SelSet(20, VFragASelections(d.a))),
       FragmentDefinition("B", "Query", <<>>, SelSet(30, VFragBSelections(d.b)))>>

VDocs ==
  [fam : {"validate"}, r : VRoots, a : VFragAs, b : VFragBs, av : {0, 1}, pre : {0, 1}]
    \cup [fam : {"validate"}, r : {0}, a : {1, 4}, b : {1, 4}, av : {0}, pre : {0},
          t1 : {"Dog", "Cat", "Pet", "Named", "Zzz"},
          t2 : {"Dog", "Cat", "Pet", "Named", "Zzz"}]

NoDefinition ==
  [kind |-> "none", operation |-> "", name |-> "", tc |-> "", vars |-> <<>>, ss |-> NoSet]

RECURSIVE FindFragment(_, _, _)
FindFragment(defs, name, i) ==
  IF i > Len(defs) THEN NoDefinition
  ELSE IF defs[i].kind = "fragment" /\ defs[i].name = name THEN defs[i]
       ELSE FindFragment(defs, name, i + 1)

\* context.getFragment(name)
getFragment(name) == FindFragment(VDefinitions(doc), name, 1)

(***************************************************************************)
(* The comparison algorithm.  Every operator takes the working state `st`  *)
(* and returns it updated; once st.status is not "ok" an exception is      *)
(* propagating and every call returns at once.                             *)
(*                                                                         *)
(* `act` is the set of collectConflictsBetweenFieldsAndFragment calls on   *)
(* the call stack, each with its arguments and the two caches as they      *)
(* were on entry.  The algorithm is deterministic in these, so a call      *)
(* that finds itself in `act` repeats forever: the recursion is unbounded  *)
(* (the engine's call stack overflows) and the status becomes "overflow".  *)
(***************************************************************************)
RECURSIVE collectConflictsBetweenFieldsAndFragment(_, _, _, _, _)
RECURSIVE ReferencedSpreadsLoop(_, _, _, _, _, _, _)
RECURSIVE collectConflictsBetweenFragments(_, _, _, _, _)
RECURSIVE FragmentsLoop(_, _, _, _, _, _, _)
RECURSIVE findConflictsBetweenSubSelectionSets(_, _, _, _, _, _, _)
RECURSIVE FieldsAndFragmentsLoop(_, _, _, _, _, _)
RECURSIVE FragmentPairsLoop(_, _, _, _, _, _, _)
RECURSIVE collectConflictsBetween(_, _, _, _, _)
RECURSIVE BetweenLoop(_, _, _, _, _, _, _, _)
RECURSIVE findFieldConflicts(_, _, _, _, _, _)

PushConflict(st) ==
  IF st.status = "ok" /\ st.ret.kind # "NONE"
  THEN [st EXCEPT !.conflicts = Append(@, st.ret)]
  ELSE st

\* findFieldConflicts with the return-type check waived, like the name and
\* argument checks, for a mutually exclusive pair.
findFieldConflictsTypesWaived(st, act, parentFieldsAreMutuallyExclusive, responseName, field1, field2) ==
  LET node1 == field1.node
      node2 == field2.node
      areMutuallyExclusive ==
        areMutuallyExclusiveFields(parentFieldsAreMutuallyExclusive,
                                   field1.parentType, field2.parentType)
      type1 == field1.def
      type2 == field2.def
  IN
  IF st.status # "ok" THEN st
  ELSE IF ~areMutuallyExclusive /\ node1.name # node2.name
  THEN [st EXCEPT !.ret = FieldConflict(responseName, "different fields", node1, node2)]
  ELSE IF ~areMutuallyExclusive /\ ~sameArguments(node1.args, node2.args)
  THEN [st EXCEPT !.ret =
          FieldConflict(responseName, "they have differing arguments", node1, node2)]
  ELSE IF ~sameStreams(node1.stream, node2.stream)
  THEN [st EXCEPT !.ret =
          FieldConflict(responseName, "they have differing stream directives", node1, node2)]
  ELSE IF ~areMutuallyExclusive /\ type1 # NoType /\ type2 # NoType
          /\ doTypesConflict(type1, type2)
  THEN [st EXCEPT !.ret =
          FieldConflict(responseName, "they return conflicting types", node1, node2)]
  ELSE IF node1.sub # NoSet /\ node2.sub # NoSet
  THEN LET sub == findConflictsBetweenSubSelectionSets(
                    [st EXCEPT !.conflicts = <<>>], act, areMutuallyExclusive,
                    getNamedType(type1), node1.sub, getNamedType(type2), node2.sub)
       IN [sub EXCEPT !.conflicts = st.conflicts,
                      !.ret = subfieldConflicts(sub.conflicts, responseName, node1, node2)]
  ELSE [st EXCEPT !.ret = NoConflict]

findFieldConflicts(st, act, parentFieldsAreMutuallyExclusive, responseName, field1, field2) ==
  LET node1 == field1.node
      node2 == field2.node
      areMutuallyExclusive ==
        areMutuallyExclusiveFields(parentFieldsAreMutuallyExclusive,
                                   field1.parentType, field2.parentType)
      type1 == field1.def
      type2 == field2.def
  IN
  IF st.status # "ok" THEN st
  ELSE IF ~areMutuallyExclusive /\ node1.name # node2.name
  THEN [st EXCEPT !.ret = FieldConflict(responseName, "different fields", node1, node2)]
  ELSE IF ~areMutuallyExclusive /\ ~sameArguments(node1.args, node2.args)
  THEN [st EXCEPT !.ret =
          FieldConflict(responseName, "they have differing arguments", node1, node2)]
  ELSE IF ~sameStreams(node1.stream, node2.stream)
  THEN [st EXCEPT !.ret =
          FieldConflict(responseName, "they have differing stream directives", node1, node2)]
  ELSE IF type1 # NoType /\ type2 # NoType /\ doTypesConflict(type1, type2)
  THEN [st EXCEPT !.ret =
          FieldConflict(responseName, "they return conflicting types", node1, node2)]
  ELSE IF node1.sub # NoSet /\ node2.sub # NoSet
  THEN LET sub == findConflictsBetweenSubSelectionSets(
                    [st EXCEPT !.conflicts = <<>>], act, areMutuallyExclusive,
                    getNamedType(type1), node1.sub, getNamedType(type2), node2.sub)
       IN [sub EXCEPT !.conflicts = st.conflicts,
                      !.ret = subfieldConflicts(sub.conflicts, responseName, node1, node2)]
  ELSE [st EXCEPT !.ret = NoConflict]

\* for responseName, fields1 of fieldMap1 / for field1 / for field2
BetweenLoop(st, act, flag, map1, map2, i, j, k) ==
  IF st.status # "ok" \/ i > Len(map1) THEN st
  ELSE
    LET i2 == IndexOfKey(map2, map1[i].key, 1) IN
    IF i2 = 0 \/ j > Len(map1[i].fields)
    THEN BetweenLoop(st, act, flag, map1, map2, i + 1, 1, 1)
    ELSE IF k > Len(map2[i2].fields)
    THEN BetweenLoop(st, act, flag, map1, map2, i, j + 1, 1)
    ELSE BetweenLoop(
           PushConflict(findFieldConflicts(st, act, flag, map1[i].key,
                                           map1[i].fields[j], map2[i2].fields[k])),
           act, flag, map1, map2, i, j, k + 1)

collectConflictsBetween(st, act, parentFieldsAreMutuallyExclusive, fieldMap1, fieldMap2) ==
  IF st.status # "ok" THEN st
  ELSE BetweenLoop([st EXCEPT !.compared = @ \cup {<<fieldMap1.id, fieldMap2.id,
                                                      parentFieldsAreMutuallyExclusive>>}],
                   act, parentFieldsAreMutuallyExclusive,
                   fieldMap1.nodeAndDefs, fieldMap2.nodeAndDefs, 1, 1, 1)

\* (E) for each fragment spread referenced by the fragment
ReferencedSpreadsLoop(st, act, flag, fieldMap, fragmentKey, referenced, i) ==
  IF st.status # "ok" \/ i > Len(referenced) THEN st
  ELSE IF PairSetHas(st.pairs, referenced[i].key, fragmentKey, flag)
  THEN ReferencedSpreadsLoop(st, act, flag, fieldMap, fragmentKey, referenced, i + 1)
  ELSE ReferencedSpreadsLoop(
         collectConflictsBetweenFieldsAndFragment(
           [st EXCEPT !.pairs = PairSetAdd(@, referenced[i].key, fragmentKey, flag)],
           act, flag, fieldMap, referenced[i].node),
         act, flag, fieldMap, fragmentKey, referenced, i + 1)

collectConflictsBetweenFieldsAndFragment(st, act, areMutuallyExclusive, fieldMap, fragmentSpread) ==
  LET fragmentDef == getFragment(fragmentSpread.name)
      fragmentKey == keyForFragmentSpread(fragmentSpread)
      call == <<fieldMap.id, fragmentKey, areMutuallyExclusive, st.pairs, DOMAIN st.cache>>
      st1 == getReferencedFieldsAndFragmentSpreads(st, fragmentDef, fragmentSpread)
      entry2 == cached(st1, substituteFragmentArguments(fragmentDef, fragmentSpread))
  IN
  IF st.status # "ok" THEN st
  ELSE IF fragmentDef.kind = "none" THEN st
  ELSE IF call \in act THEN [st EXCEPT !.status = "overflow"]
  ELSE IF st1.status # "ok" THEN st1
  ELSE IF fieldMap.id = entry2.id THEN st1
  ELSE ReferencedSpreadsLoop(
         collectConflictsBetween(st1, act \cup {call}, areMutuallyExclusive,
                                 fieldMap, entry2),
         act \cup {call}, areMutuallyExclusive, fieldMap, fragmentKey,
         entry2.fragmentSpreads, 1)

\* (G) `first` = TRUE: fragmentSpread1 against each spread referenced by the
\* second fragment; FALSE: each spread referenced by the first against
\* fragmentSpread2.
FragmentsLoop(st, act, flag, first, fixed, referenced, i) ==
  IF st.status # "ok" \/ i > Len(referenced) THEN st
  ELSE FragmentsLoop(
         IF first
         THEN collectConflictsBetweenFragments(st, act, flag, fixed, referenced[i].node)
         ELSE collectConflictsBetweenFragments(st, act, flag, referenced[i].node, fixed),
         act, flag, first, fixed, referenced, i + 1)

collectConflictsBetweenFragments(st, act, areMutuallyExclusive, fragmentSpread1, fragmentSpread2) ==
  LET fragmentKey1 == keyForFragmentSpread(fragmentSpread1)
      fragmentKey2 == keyForFragmentSpread(fragmentSpread2)
      st1 == [st EXCEPT !.pairs =
                PairSetAdd(@, fragmentKey1, fragmentKey2, areMutuallyExclusive)]
      fragmentDef1 == getFragment(fragmentSpread1.name)
      fragmentDef2 == getFragment(fragmentSpread2.name)
      st2 == getReferencedFieldsAndFragmentSpreads(st1, fragmentDef1, fragmentSpread1)
      st3 == getReferencedFieldsAndFragmentSpreads(st2, fragmentDef2, fragmentSpread2)
      entry1 == cached(st3, substituteFragmentArguments(fragmentDef1, fragmentSpread1))
      entry2 == cached(st3, substituteFragmentArguments(fragmentDef2, fragmentSpread2))
  IN
  IF st.status # "ok" THEN st
  ELSE IF fragmentKey1 = fragmentKey2 THEN st
  ELSE IF PairSetHas(st.pairs, fragmentKey1, fragmentKey2, areMutuallyExclusive) THEN st
  ELSE IF fragmentSpread1.name = fragmentSpread2.name
  THEN [st1 EXCEPT !.conflicts = Append(@,
          [kind |-> "FRAGMENT_SPREAD", name |-> fragmentSpread1.name,
           msg |-> "have different fragment arguments", sub |-> <<>>,
           selectionPath1 |-> <<fragmentSpread1>>,
           selectionPath2 |-> <<fragmentSpread2>>])]
  ELSE IF fragmentDef1.kind = "none" \/ fragmentDef2.kind = "none" THEN st1
  ELSE IF st2.status # "ok" THEN st2
  ELSE IF st3.status # "ok" THEN st3
  ELSE FragmentsLoop(
         FragmentsLoop(
           collectConflictsBetween(st3, act, areMutuallyExclusive, entry1, entry2),
           act, areMutuallyExclusive, TRUE, fragmentSpread1, entry2.fragmentSpreads, 1),
         act, areMutuallyExclusive, FALSE, fragmentSpread2, entry1.fragmentSpreads, 1)

\* for each spread: collectConflictsBetweenFieldsAndFragment(fieldMap, spread)
FieldsAndFragmentsLoop(st, act, flag, fieldMap, spreads, i) ==
  IF st.status # "ok" \/ i > Len(spreads) THEN st
  ELSE FieldsAndFragmentsLoop(
         collectConflictsBetweenFieldsAndFragment(st, act, flag, fieldMap, spreads[i].node),
         act, flag, fieldMap, spreads, i + 1)

\* (J) for each spread of the first / for each spread of the second
FragmentPairsLoop(st, act, flag, spreads1, spreads2, i, j) ==
  IF st.status # "ok" \/ i > Len(spreads1) THEN st
  ELSE IF j > Len(spreads2)
  THEN FragmentPairsLoop(st, act, flag, spreads1, spreads2, i + 1, 1)
  ELSE FragmentPairsLoop(
         collectConflictsBetweenFragments(st, act, flag, spreads1[i].node, spreads2[j].node),
         act, flag, spreads1, spreads2, i, j + 1)

\* Called with st.conflicts empty; the conflicts of the returned state are
\* the function's result.
findConflictsBetweenSubSelectionSets(st, act, areMutuallyExclusive, parentType1, selectionSet1, parentType2, selectionSet2) ==
  LET st1 == getFieldsAndFragmentSpreads(st, parentType1, selectionSet1)
      st2 == getFieldsAndFragmentSpreads(st1, parentType2, selectionSet2)
      entry1 == cached(st2, selectionSet1)
      entry2 == cached(st2, selectionSet2)
  IN
  IF st.status # "ok" THEN st
  ELSE IF st1.status # "ok" THEN st1
  ELSE IF st2.status # "ok" THEN st2
  ELSE FragmentPairsLoop(
         FieldsAndFragmentsLoop(
           FieldsAndFragmentsLoop(
             collectConflictsBetween(st2, act, areMutuallyExclusive, entry1, entry2),
             act, areMutuallyExclusive, entry1, entry2.fragmentSpreads, 1),
           act, areMutuallyExclusive, entry2, entry1.fragmentSpreads, 1),
         act, areMutuallyExclusive, entry1.fragmentSpreads, entry2.fragmentSpreads, 1, 1)

\* for each response name with more than one field / for i / for j > i
RECURSIVE WithinLoop(_, _, _, _, _)
WithinLoop(st, map, i, j, k) ==
  IF st.status # "ok" \/ i > Len(map) THEN st
  ELSE IF Len(map[i].fields) <= 1 \/ j > Len(map[i].fields)
  THEN WithinLoop(st, map, i + 1, 1, 2)
  ELSE IF k > Len(map[i].fields)
  THEN WithinLoop(st, map, i, j + 1, j + 2)
  ELSE WithinLoop(
         PushConflict(findFieldConflicts(st, {}, FALSE, map[i].key,
                                         map[i].fields[j], map[i].fields[k])),
         map, i, j, k + 1)

collectConflictsWithin(st, fieldMap) == WithinLoop(st, fieldMap.nodeAndDefs, 1, 1, 2)

\* (B) and (C): for i / for j > i
RECURSIVE WithinSpreadsLoop(_, _, _, _, _)
WithinSpreadsLoop(st, fieldMap, fragmentSpreads, i, j) ==
  IF st.status # "ok" \/ i > Len(fragmentSpreads) THEN st
  ELSE IF j = i
  THEN WithinSpreadsLoop(
         collectConflictsBetweenFieldsAndFragment(st, {}, FALSE, fieldMap,
                                                  fragmentSpreads[i].node),
         fieldMap, fragmentSpreads, i, i + 1)
  ELSE IF j > Len(fragmentSpreads)
  THEN WithinSpreadsLoop(st, fieldMap, fragmentSpreads, i + 1, i + 1)
  ELSE WithinSpreadsLoop(
         collectConflictsBetweenFragments(st, {}, FALSE, fragmentSpreads[i].node,
                                          fragmentSpreads[j].node),
         fieldMap, fragmentSpreads, i, j + 1)

\* The conflicts of the returned state are the function's result.
findConflictsWithinSelectionSet(st, parentType, selectionSet) ==
  LET st1 == getFieldsAndFragmentSpreads([st EXCEPT !.conflicts = <<>>],
                                         parentType, selectionSet)
      entry == cached(st1, selectionSet)
  IN
  IF st1.status # "ok" THEN st1
  ELSE WithinSpreadsLoop(collectConflictsWithin(st1, entry),
                         entry, entry.fragmentSpreads, 1, 1)

(***************************************************************************)
(* The document walk: the SelectionSet nodes in the order the visitor      *)
(* enters them, each with TypeInfo's parent type at that point.            *)
(***************************************************************************)
isCompositeType(t) == isObjectType(t) \/ isInterfaceType(t)
CompositeOrNone(t) == IF isCompositeType(t) THEN t ELSE None

RECURSIVE VisitSelections(_, _, _)
RECURSIVE VisitSet(_, _)
VisitSet(parentType, ss) ==
  <<[parentType |-> parentType, ss |-> ss]>> \o VisitSelections(parentType, ss.sels, 1)
VisitSelections(parentType, sels, i) ==
  IF i > Len(sels) THEN <<>>
  ELSE
    LET s == sels[i] IN
    (CASE s.kind = "Field" /\ s.sub # NoSet ->
            VisitSet(CompositeOrNone(getNamedType(
                       IF isCompositeType(parentType)
                       THEN getFields(parentType, s.name) ELSE NoType)), s.sub)
       [] s.kind = "Inline" ->
            VisitSet(IF s.tc # "" THEN CompositeOrNone(typeFromAST(s.tc)) ELSE parentType,
                     s.sub)
       [] OTHER -> <<>>)
    \o VisitSelections(parentType, sels, i + 1)

RECURSIVE VisitDefinitions(_, _)
VisitDefinitions(defs, i) ==
  IF i > Len(defs) THEN <<>>
  ELSE VisitSet(IF defs[i].kind = "operation" THEN "Query"
                ELSE CompositeOrNone(typeFromAST(defs[i].tc)),
                defs[i].ss)
       \o VisitDefinitions(defs, i + 1)

VisitOrder == VisitDefinitions(VDefinitions(doc), 1)

(***************************************************************************)
(* The validator run: one action per SelectionSet node the visitor enters. *)
(***************************************************************************)
\* context.reportError(new GraphQLError(...)) for one conflict found at the
\* selection set `id`: a "Fields ... conflict" message for a FIELD reason,
\* a "Spreads ... conflict" message otherwise.
ReportedError(id, conflict) ==
  [at |-> id,
   message |-> IF conflict.kind = "FIELD" THEN "Fields conflict" ELSE "Spreads conflict",
   name |-> conflict.name, msg |-> conflict.msg, sub |-> conflict.sub,
   nodes |-> conflict.selectionPath1 \o conflict.selectionPath2]

\* The result of findConflictsWithinSelectionSet for the next node.
VisitResult ==
  findConflictsWithinSelectionSet(
    [pairs |-> pairs, cache |-> cache, conflicts |-> <<>>, status |-> "ok",
     ret |-> NoConflict, compared |-> {}],
    VisitOrder[vpos + 1].parentType, VisitOrder[vpos + 1].ss)

SelectionSetVisit ==
  /\ doc.fam = "validate"
  /\ vstatus = "ok"
  /\ vpos < Len(VisitOrder)
  /\ \E st \in {VisitResult} :
     /\ pairs' = st.pairs
     /\ cache' = st.cache
     /\ vstatus' = st.status
     /\ errors' = IF st.status = "ok"
                  THEN errors \o [i \in 1..Len(st.conflicts) |->
                                    ReportedError(VisitOrder[vpos + 1].ss.id, st.conflicts[i])]
                  ELSE errors
  /\ vpos' = vpos + 1
  /\ UNCHANGED <<doc, cin, cout>>

Idle == [unused |-> TRUE]

InitValidate ==
  /\ doc \in VDocs
  /\ vpos = 0
  /\ pairs = EmptyPairSet
  /\ cache = [x \in {} |-> None]
  /\ errors = <<>>
  /\ vstatus = "ok"
  /\ cin = Idle
  /\ cout = Idle

NextValidate == SelectionSetVisit

SpecValidate == InitValidate /\ [][NextValidate]_vars

(***************************************************************************)
(* Vocabulary of the validator's properties.                               *)
(***************************************************************************)
Validating == doc.fam = "validate"

\* The selection set whose visit has just ended, and its own field map and
\* fragment spreads.
LastVisited == VisitOrder[vpos]
LastEntry == FieldsAndFragmentSpreads(LastVisited.parentType, LastVisited.ss)

\* The fragment names reachable through spreads from a set of names.
SpreadNamesOf(entry) ==
  {entry.fragmentSpreads[i].node.name : i \in 1..Len(entry.fragmentSpreads)}
FragmentEntry(name) ==
  FieldsAndFragmentSpreads(typeFromAST(getFragment(name).tc), getFragment(name).ss)
RECURSIVE ReachableFrom(_, _)
ReachableFrom(seen, frontier) ==
  IF frontier \subseteq seen THEN seen
  ELSE ReachableFrom(seen \cup frontier,
         UNION {SpreadNamesOf(FragmentEntry(n)) : n \in frontier \ seen})
ReachableFragments(entry) == ReachableFrom({}, SpreadNamesOf(entry))

\* Two values are equal up to the order of the keys of object literals.
ValueAsSet(v) == [k |-> v.k, i |-> v.i, n |-> v.n,
                  f |-> {<<v.f[i].name, v.f[i].value>> : i \in 1..Len(v.f)}]
ArgumentSet(args) == {<<args[i].name, ValueAsSet(args[i].value)>> : i \in 1..Len(args)}

\* Distinct object parent types: the two fields can never apply together.
ExclusiveParents(f1, f2) ==
  /\ f1.parentType # f2.parentType
  /\ f1.parentType \in ObjectTypes
  /\ f2.parentType \in ObjectTypes

NamesOrArgumentsDiffer(f1, f2) ==
  \/ f1.node.name # f2.node.name
  \/ ArgumentSet(f1.node.args) # ArgumentSet(f2.node.args)

\* The reason a comparison started at a selection set visit gives for a
\* pair that differs in name or arguments.
NameOrArgumentReason(f1, f2) ==
  IF f1.node.name # f2.node.name THEN "different fields"
  ELSE "they have differing arguments"

ReportedAt(id, key, msg, node1, node2) ==
  \E n \in 1..Len(errors) :
    /\ errors[n].at = id
    /\ errors[n].name = key
    /\ errors[n].msg = msg
    /\ errors[n].nodes = <<node1, node2>>

\* C1: when the visit of a selection set S ends normally, every field of S
\* has been compared with every same-response-key field of every fragment
\* reachable from S through fragment spreads: each such pair that is not
\* mutually exclusive and differs in field name or arguments is among the
\* errors reported for S, whatever was visited before.
C1_ReachableFragmentsCompared ==
  (Validating /\ vpos >= 1 /\ vstatus = "ok") =>
    \A F \in ReachableFragments(LastEntry) :
      (getFragment(F).kind # "none" /\ getFragment(F).ss.id # LastVisited.ss.id) =>
        \A i \in 1..Len(LastEntry.nodeAndDefs) :
          \A i2 \in 1..Len(FragmentEntry(F).nodeAndDefs) :
            LastEntry.nodeAndDefs[i].key = FragmentEntry(F).nodeAndDefs[i2].key =>
              \A j \in 1..Len(LastEntry.nodeAndDefs[i].fields) :
                \A k \in 1..Len(FragmentEntry(F).nodeAndDefs[i2].fields) :
                  LET f1 == LastEntry.nodeAndDefs[i].fields[j]
                      f2 == FragmentEntry(F).nodeAndDefs[i2].fields[k]
                  IN (~ExclusiveParents(f1, f2) /\ NamesOrArgumentsDiffer(f1, f2)) =>
                       ReportedAt(LastVisited.ss.id, LastEntry.nodeAndDefs[i].key,
                                  NameOrArgumentReason(f1, f2), f1.node, f2.node)

\* C2: no validator run recurses without bound: every SelectionSet visit
\* returns, also on documents whose fragments spread themselves or each
\* other.
C2_ValidationTerminates == Validating => vstatus # "overflow"

\* The pairs <<i, j, k>> of one response-key group of the visited selection
\* set's own field map, in the order they are compared.
OwnPairs ==
  {t \in (1..Len(LastEntry.nodeAndDefs)) \X (1..2) \X (1..3) :
     /\ t[2] < t[3]
     /\ t[3] <= Len(LastEntry.nodeAndDefs[t[1]].fields)}
OwnKey(t) == LastEntry.nodeAndDefs[t[1]].key
OwnFirst(t) == LastEntry.nodeAndDefs[t[1]].fields[t[2]]
OwnSecond(t) == LastEntry.nodeAndDefs[t[1]].fields[t[3]]

\* Both return types are unwrapped leaf types, and different ones.
LeafTypesDiffer(t1, t2) ==
  /\ t1.wrap = <<>> /\ t2.wrap = <<>>
  /\ t1.named \in LeafTypes /\ t2.named \in LeafTypes
  /\ t1.named # t2.named

NameOrArgumentMessages == {"different fields", "they have differing arguments"}

\* C9 as stated: two same-response-key fields under distinct object parent
\* types (Dog, Cat) whose leaf return types differ are mutually exclusive
\* and give no conflict.
C9_ExclusiveLeafTypesDoNotConflict ==
  (Validating /\ vpos >= 1 /\ vstatus = "ok") =>
    \A t \in OwnPairs :
      (ExclusiveParents(OwnFirst(t), OwnSecond(t))
         /\ LeafTypesDiffer(OwnFirst(t).def, OwnSecond(t).def)) =>
        ~\E n \in 1..Len(errors) :
            /\ errors[n].at = LastVisited.ss.id
            /\ errors[n].name = OwnKey(t)
            /\ errors[n].nodes = <<OwnFirst(t).node, OwnSecond(t).node>>

\* C9 (amended): mutual exclusivity waives only the name and the argument
\* checks.  Two same-response-key fields of a selection set whose leaf
\* return types differ are reported with "they return conflicting types"
\* when they are mutually exclusive (under Dog and under Cat) as well as
\* when they are not but agree in name and arguments; stream usage being
\* the same.
C9_LeafTypesConflictAlsoWhenExclusive ==
  (Validating /\ vpos >= 1 /\ vstatus = "ok") =>
    \A t \in OwnPairs :
      (/\ LeafTypesDiffer(OwnFirst(t).def, OwnSecond(t).def)
       /\ OwnFirst(t).node.stream = OwnSecond(t).node.stream
       /\ \/ ExclusiveParents(OwnFirst(t), OwnSecond(t))
          \/ ~NamesOrArgumentsDiffer(OwnFirst(t), OwnSecond(t))) =>
        ReportedAt(LastVisited.ss.id, OwnKey(t), "they return conflicting types",
                   OwnFirst(t).node, OwnSecond(t).node)

\* `pet { ... on Dog { x } ... on Cat { x } }` has been visited and the pair
\* x: Int / x: String was reported.
C9_Witness ==
  /\ Validating /\ vpos >= 1 /\ vstatus = "ok"
  /\ \E t \in OwnPairs :
       /\ OwnFirst(t).parentType = "Dog" /\ OwnSecond(t).parentType = "Cat"
       /\ LeafTypesDiffer(OwnFirst(t).def, OwnSecond(t).def)
       /\ ReportedAt(LastVisited.ss.id, OwnKey(t), "they return conflicting types",
                     OwnFirst(t).node, OwnSecond(t).node)

\* The name and argument conflicts expected among a selection set's own
\* fields, and the ones reported for it.
ExpectedNameOrArgumentPairs ==
  {t \in OwnPairs : /\ ~ExclusiveParents(OwnFirst(t), OwnSecond(t))
                    /\ NamesOrArgumentsDiffer(OwnFirst(t), OwnSecond(t))}
ReportedNameOrArgumentErrors ==
  {n \in 1..Len(errors) : /\ errors[n].at = LastVisited.ss.id
                          /\ errors[n].msg \in NameOrArgumentMessages}

BoolV(b) == [k |-> "bool", i |-> 0, n |-> b, f |-> <<>>]

NoVariables == [n \in {} |-> "unset"]
Undefined == [defined |-> FALSE, vals |-> NoVariables]
Defined(vals) == [defined |-> TRUE, vals |-> vals]

\* { ...variableValues, ...localVariableValues }
mergedVariableValues(variableValues, localVariableValues) ==
  LET local == IF localVariableValues.defined THEN localVariableValues.vals
               ELSE NoVariables
  IN [n \in DOMAIN variableValues \cup DOMAIN local |->
        IF n \in DOMAIN local THEN local[n] ELSE variableValues[n]]

\* The runtime value of variable `n` in an environment.
VariableValue(env, n) == IF n \in DOMAIN env THEN env[n] ELSE "unset"

\* The variable a directive's `if` argument names ("" for a literal).
ConditionVariable(c) == IF c = "$x" THEN "x" ELSE IF c = "$y" THEN "y" ELSE ""

\* getDirectiveValues(directive, node, variableValues).if for the condition
\* `c` of a directive: "absent" without the directive, else "true",
\* "false", or "unset" when the variable has no runtime value.
getDirectiveValues(c, variableValues) ==
  CASE c = "none" -> "absent"
    [] c = "on" -> "true"
    [] c \in {"true", "false"} -> c
    [] OTHER -> VariableValue(variableValues, ConditionVariable(c))

\* shouldIncludeNode giving @include(if: true) precedence over @skip.
shouldIncludeNodeIncludeFirst(variableValues, node) ==
  IF getDirectiveValues(node.incl, variableValues) = "true" THEN TRUE
  ELSE IF getDirectiveValues(node.skip, variableValues) = "true" THEN FALSE
  ELSE IF getDirectiveValues(node.incl, variableValues) = "false" THEN FALSE
  ELSE TRUE

shouldIncludeNode(variableValues, node) ==
  IF getDirectiveValues(node.skip, variableValues) = "true" THEN FALSE
  ELSE IF getDirectiveValues(node.incl, variableValues) = "false" THEN FALSE
  ELSE TRUE

doesFragmentConditionMatch(tc, type) ==
  IF tc = "" THEN TRUE
  ELSE IF typeFromAST(tc) = type THEN TRUE
  ELSE IF isAbstractType(typeFromAST(tc)) THEN isSubType(typeFromAST(tc), type)
  ELSE FALSE

\* A DeferUsage object: `id` is its identity (the pass and the order of its
\* creation), `at` the position of the node that created it.
NoDeferUsage ==
  [kind |-> "none", label |-> "", parentDeferUsage |-> <<>>, id |-> <<>>, at |-> <<>>]
DeferThrew ==
  [kind |-> "threw", label |-> "", parentDeferUsage |-> <<>>, id |-> <<>>, at |-> <<>>]

\* getDeferUsage without the invariant on the operation type.
getDeferUsageAnyOperation(operation, variableValues, node, parentDeferUsage) ==
  LET deferIf == IF node.defer = "on" THEN "true"
                 ELSE getDirectiveValues(node.defer, variableValues) IN
  IF deferIf \in {"absent", "false"} THEN NoDeferUsage
  ELSE [kind |-> "usage", label |-> node.label, parentDeferUsage |-> parentDeferUsage,
        id |-> <<>>, at |-> <<>>]

getDeferUsage(operation, variableValues, node, parentDeferUsage) ==
  LET deferIf == IF node.defer = "on" THEN "true"
                 ELSE getDirectiveValues(node.defer, variableValues) IN
  IF deferIf = "absent" THEN NoDeferUsage
  ELSE IF deferIf = "false" THEN NoDeferUsage
  ELSE IF operation = "subscription" THEN DeferThrew
  ELSE [kind |-> "usage", label |-> node.label, parentDeferUsage |-> parentDeferUsage,
        id |-> <<>>, at |-> <<>>]

\* The value a spread argument's value node denotes: a literal, or a
\* variable looked up in the enclosing fragment scope first, then in the
\* operation's variables.
ArgumentValue(valueNode, variableValues, fragmentVariableValues) ==
  IF valueNode.k = "var"
  THEN (IF fragmentVariableValues.defined /\ valueNode.n \in DOMAIN fragmentVariableValues.vals
        THEN fragmentVariableValues.vals[valueNode.n]
        ELSE VariableValue(variableValues, valueNode.n))
  ELSE valueNode.n

\* getArgumentValuesFromSpread: every declared variable is bound, to the
\* spread's argument when it supplies a value, else to the default, else
\* to "unset".
getArgumentValuesFromSpread(node, fragmentVarDefs, variableValues, fragmentVariableValues) ==
  Defined([n \in {fragmentVarDefs[i].name : i \in 1..Len(fragmentVarDefs)} |->
    LET varDef == fragmentVarDefs[CHOOSE i \in 1..Len(fragmentVarDefs) :
                                    fragmentVarDefs[i].name = n]
        j == LastIndexOfName(node.args, n, Len(node.args))
        supplied == IF j = 0 THEN "unset"
                    ELSE ArgumentValue(node.args[j].value, variableValues,
                                       fragmentVariableValues)
    IN IF supplied # "unset" THEN supplied
       ELSE IF varDef.hasDefault THEN varDef.default
       ELSE "unset"])

\* AccumulatorMap.add(key, item): a Map, keys in first-insertion order.
AccumulatorMapAdd(groupedFieldSet, key, item) ==
  LET i == IndexOfKey(groupedFieldSet, key, 1) IN
  IF i = 0
  THEN Append(groupedFieldSet, [key |-> key, details |-> <<item>>])
  ELSE [groupedFieldSet EXCEPT ![i].details = Append(@, item)]

(***************************************************************************)
(* Documents given to field collection: an operation, fragments F (which   *)
(* may declare $x) and G on Query, and a fragment D on Dog.                *)
(***************************************************************************)
f(name) == Field("", name, <<>>)
fa(alias, name) == Field(alias, name, <<>>)
sF == Spread("F", <<>>)
sG == Spread("G", <<>>)
Labelled(s, l) == [s EXCEPT !.label = l]

CRootSelections(r) ==
  CASE r = 1 -> <<Include(Skip(fa("w", "foo"), "true"), "true"),
                  Include(Skip(fa("v", "foo"), "false"), "false"),
                  Include(Skip(fa("y", "foo"), "false"), "true"),
                  fa("z", "foo")>>
    [] r = 2 -> <<Include(Skip(Inline("", SelSet(2, <<fa("w", "foo")>>)), "true"), "true"),
                  Include(Skip(Inline("", SelSet(3, <<fa("v", "foo")>>)), "false"), "false"),
                  Include(Skip(Inline("", SelSet(4, <<fa("y", "foo")>>)), "false"), "true"),
                  Inline("", SelSet(5, <<fa("z", "foo")>>))>>
    [] r = 3 -> <<Skip(f("foo"), "$x"), Include(f("bar"), "$x"),
                  Skip(Inline("", SelSet(2, <<f("str")>>)), "$x")>>
    [] r = 4 -> <<sF>>
    [] r = 5 -> <<Spread("F", <<Arg("x", BoolV("true"))>>),
                  Inline("", SelSet(2, <<Skip(fa("b", "foo"), "$x")>>))>>
    [] r = 6 -> <<fa("b", "bar"), sF, fa("a", "foo"), fa("b", "foo"),
                  Inline("", SelSet(2, <<f("foo"), fa("c", "str")>>))>>
    [] r = 7 -> <<Skip(Defer(sF, "on"), "true"), Include(Defer(sG, "on"), "false")>>
    [] r = 8 -> <<Skip(sF, "true"), Include(sG, "false"), f("str")>>
    [] r = 9 -> <<sF, sF, sG, sG>>
    [] r = 10 -> <<Labelled(Defer(Inline("", SelSet(2,
                     <<f("foo"), Defer(Inline("", SelSet(3, <<f("bar")>>)), "on")>>)),
                     "on"), "L1"),
                   Defer(Inline("", SelSet(4, <<f("str")>>)), "$x")>>
    [] r = 11 -> <<Defer(sF, "on"), Defer(sF, "on"), sF>>
    [] r = 12 -> <<Inline("Dog", SelSet(2, <<f("foo")>>)),
                   Inline("Pet", SelSet(3, <<f("bar")>>)),
                   Inline("Query", SelSet(4, <<f("str")>>)),
                   Spread("D", <<>>), Spread("Z", <<>>)>>
    [] r = 13 -> <<FieldS("", "a", SelSet(2, <<Skip(fa("b", "foo"), "$x"), sG>>)),
                   sF,
                   FieldS("", "a", SelSet(3,
                     <<fa("b", "bar"), Defer(Inline("", SelSet(4, <<f("str")>>)), "on")>>))>>
    [] r = 14 -> <<Spread("F", <<Arg("x", VarV("x"))>>)>>
    [] r = 15 -> <<Spread("F", <<Arg("x", BoolV("false"))>>), Skip(f("foo"), "$x")>>
    [] r = 16 -> <<Defer(Spread("D", <<>>), "on"), sG, Defer(sG, "false"), f("foo")>>
    [] r = 17 -> <<Defer(Inline("", SelSet(2, <<f("foo")>>)), "false"),
                   Defer(sG, "false"),
                   FieldS("", "a", SelSet(3,
                     <<Defer(Inline("", SelSet(4, <<f("bar")>>)), "false")>>))>>
    [] r = 18 -> <<Labelled(Defer(Inline("", SelSet(2,
                     <<FieldS("", "a", SelSet(3,
                         <<f("foo"),
                           Labelled(Defer(Inline("", SelSet(4, <<f("bar")>>)), "on"),
                                    "L2")>>))>>)),
                     "on"), "L1"),
                   FieldS("", "a", SelSet(5, <<f("str")>>))>>
    [] OTHER -> <<FieldS("", "a", SelSet(2,
                     <<Spread("F", <<Arg("x", BoolV("true"))>>), fa("b", "foo")>>)),
                   FieldS("", "a", SelSet(3, <<sF, Defer(sF, "on"), f("str")>>))>>
CRoots == 1..19

CFragFSelections(fb) ==
  CASE fb = 1 -> <<Skip(f("foo"), "$x"), f("bar")>>
    [] fb = 2 -> <<sG, Inline("", SelSet(21, <<Skip(fa("b", "foo"), "$x")>>))>>
    [] fb = 3 -> <<fa("s", "foo"), sF>>
    [] fb = 4 -> <<Defer(Inline("", SelSet(21, <<f("foo")>>)), "$x"), Defer(sG, "$x")>>
    [] fb = 5 -> <<FieldS("", "a", SelSet(21, <<Skip(fa("b", "foo"), "$x")>>)), sG,
                   Include(f("str"), "$x")>>
    [] OTHER -> <<f("foo"), Defer(sF, "on")>>
CFragFs == 1..6

CFragGSelections(gb) ==
  CASE gb = 1 -> <<fa("c", "foo")>>
    [] gb = 2 -> <<sF, fa("c", "bar")>>
    [] OTHER -> <<Skip(fa("c", "foo"), "$x")>>
CFragGs == 1..3

\* The variables fragment F declares: none, $x, or $x with default true.
CFragFVariables(fv) ==
  CASE fv = 0 -> <<>>
    [] fv = 1 -> <<VarDef("x", FALSE, "unset")>>
    [] OTHER -> <<VarDef("x", TRUE, "true")>>

CDefinitions(d, operation) ==
  <<OpDef(operation, SelSet(1, CRootSelections(d.r))),
    FragmentDefinition("F", "Query", CFragFVariables(d.fv), SelSet(20, CFragFSelections(d.fb))),
    FragmentDefinition("G", "Query", <<>>, SelSet(30, CFragGSelections(d.gb))),
    FragmentDefinition("D", "Dog", <<>>, SelSet(40, <<fa("d", "foo")>>))>>

CDocs == [fam : {"collect"}, r : CRoots, fv : {0, 1, 2}, fb : CFragFs, gb : CFragGs]

\* The arguments of one collection pass besides the selection sets.
CInputs == [x : {"true", "false", "absent"}, operation : {"query", "subscription"},
            runtimeType : {"Query", "Dog"}]

OperationVariables(x) == IF x = "absent" THEN NoVariables ELSE [n \in {"x"} |-> x]

\* The CollectFieldsContext of a pass, without its two mutable members.
CollectFieldsContext(d, in, pass, type) ==
  [fragments |-> CDefinitions(d, in.operation), operation |-> in.operation,
   runtimeType |-> type, variableValues |-> OperationVariables(in.x), pass |-> pass]

\* The mutable part of a pass: the two accumulators, and the context's
\* visitedFragmentNames and localVariableValues.  `spreads` only records, in
\* order, what the pass did with each fragment spread it came to.
NewPass ==
  [groupedFieldSet |-> <<>>, newDeferUsages |-> <<>>, visitedFragmentNames |-> {},
   localVariableValues |-> Undefined, status |-> "ok", spreads |-> <<>>]

\* The spread test without the visited-names guard.
spreadIsSkippedIgnoringVisited(newDeferUsage, visitedFragmentNames, fragmentName, variableValues, selection) ==
  /\ newDeferUsage.kind = "none"
  /\ ~shouldIncludeNode(variableValues, selection)

\* The spread test applying the visited-names guard to deferred spreads too.
spreadIsSkippedAlsoWhenDeferred(newDeferUsage, visitedFragmentNames, fragmentName, variableValues, selection) ==
  \/ fragmentName \in visitedFragmentNames
  \/ newDeferUsage.kind = "none" /\ ~shouldIncludeNode(variableValues, selection)

\* The test guarding a fragment spread: a spread that is not deferred is skipped when
\* its fragment was visited or @skip/@include exclude it.
spreadIsSkipped(newDeferUsage, visitedFragmentNames, fragmentName, variableValues, selection) ==
  /\ newDeferUsage.kind = "none"
  /\ \/ fragmentName \in visitedFragmentNames
     \/ ~shouldIncludeNode(variableValues, selection)

\* newDeferUsages.push(newDeferUsage)
PushDeferUsage(cs, ctx, newDeferUsage, position) ==
  LET usage == [newDeferUsage EXCEPT !.id = <<ctx.pass, Len(cs.newDeferUsages) + 1>>,
                                     !.at = position]
  IN [cs EXCEPT !.newDeferUsages = Append(@, usage)]
LastDeferUsage(cs) == cs.newDeferUsages[Len(cs.newDeferUsages)]

(***************************************************************************)
(* collectFieldsImpl.  `cs` is the mutable part of the pass, threaded       *)
(* through every call.  `position` is the path of selection indexes from   *)
(* the pass's starting selection set to the current one and `scope` the    *)
(* fragment scope of the enclosing spread; with the selection set's        *)
(* identity they only annotate the collected field details.                *)
(* `act` holds, for every call on the stack, its selection set and the     *)
(* context's localVariableValues and visited names when it began: a call   *)
(* that finds itself in `act` recurs without bound ("overflow").           *)
(***************************************************************************)
RECURSIVE collectFieldsImpl(_, _, _, _, _, _, _)
RECURSIVE SelectionsLoop(_, _, _, _, _, _, _, _, _)

collectFieldsImpl(cs, act, ctx, selectionSet, deferUsage, scope, position) ==
  LET call == <<selectionSet.id, cs.localVariableValues, cs.visitedFragmentNames>> IN
  IF cs.status # "ok" THEN cs
  ELSE IF call \in act THEN [cs EXCEPT !.status = "overflow"]
  ELSE SelectionsLoop(cs, act \cup {call}, ctx, selectionSet, cs.localVariableValues,
                      deferUsage, scope, position, 1)

SelectionsLoop(cs, act, ctx, selectionSet, localVariableValues, deferUsage, scope, position, i) ==
  IF cs.status # "ok" \/ i > Len(selectionSet.sels) THEN cs
  ELSE
    LET selection == selectionSet.sels[i]
        here == Append(position, i)
        env == mergedVariableValues(ctx.variableValues, localVariableValues)
        next(cs2) == SelectionsLoop(cs2, act, ctx, selectionSet, localVariableValues,
                                    deferUsage, scope, position, i + 1)
    IN
    CASE selection.kind = "Field" ->
           IF ~shouldIncludeNode(env, selection) THEN next(cs)
           ELSE next([cs EXCEPT !.groupedFieldSet =
                        AccumulatorMapAdd(@, getFieldEntryKey(selection),
                          [node |-> selection, deferUsage |-> deferUsage,
                           fragmentVariableValues |-> localVariableValues,
                           position |-> here, scope |-> scope,
                           selectionSet |-> selectionSet.id])])
      [] selection.kind = "Inline" ->
           IF \/ ~shouldIncludeNode(env, selection)
              \/ ~doesFragmentConditionMatch(selection.tc, ctx.runtimeType)
           THEN next(cs)
           ELSE
             LET newDeferUsage == getDeferUsage(ctx.operation, ctx.variableValues,
                                                selection, deferUsage) IN
             IF newDeferUsage.kind = "threw" THEN [cs EXCEPT !.status = "invariant"]
             ELSE IF newDeferUsage.kind = "none"
             THEN next(collectFieldsImpl(cs, act, ctx, selection.sub, deferUsage,
                                         scope, here))
             ELSE LET pushed == PushDeferUsage(cs, ctx, newDeferUsage, here) IN
                  next(collectFieldsImpl(pushed, act, ctx, selection.sub,
                                         LastDeferUsage(pushed), scope, here))
      [] OTHER ->
           LET fragmentName == selection.name
               newDeferUsage == getDeferUsage(ctx.operation, env, selection, deferUsage)
               fragment == FindFragment(ctx.fragments, fragmentName, 1)
               skipped == spreadIsSkipped(newDeferUsage, cs.visitedFragmentNames,
                                          fragmentName, env, selection)
               applies == /\ fragment.kind # "none"
                          /\ doesFragmentConditionMatch(fragment.tc, ctx.runtimeType)
               noted == [cs EXCEPT !.spreads = Append(@,
                           [name |-> fragmentName, at |-> here, args |-> selection.args,
                            deferred |-> newDeferUsage.kind # "none",
                            visited |-> fragmentName \in cs.visitedFragmentNames,
                            applies |-> applies,
                            expanded |-> ~skipped /\ applies])]
           IN
           IF newDeferUsage.kind = "threw" THEN [cs EXCEPT !.status = "invariant"]
           ELSE IF skipped THEN next(noted)
           ELSE IF ~applies THEN next(noted)
           ELSE
             LET scoped == [noted EXCEPT !.localVariableValues =
                              IF Len(fragment.vars) > 0
                              THEN getArgumentValuesFromSpread(selection, fragment.vars,
                                     ctx.variableValues, cs.localVariableValues)
                              ELSE Undefined]
                 fragmentScope ==
                   IF Len(fragment.vars) > 0
                   THEN getArgumentValuesFromSpread(selection, fragment.vars,
                          ctx.variableValues, scope)
                   ELSE Undefined
             IN
             IF newDeferUsage.kind = "none"
             THEN next(collectFieldsImpl(
                         [scoped EXCEPT !.visitedFragmentNames = @ \cup {fragmentName}],
                         act, ctx, fragment.ss, deferUsage, fragmentScope, here))
             ELSE LET pushed == PushDeferUsage(scoped, ctx, newDeferUsage, here) IN
                  next(collectFieldsImpl(pushed, act, ctx, fragment.ss,
                                         LastDeferUsage(pushed), fragmentScope, here))

\* collectFields(schema, fragments, variableValues, runtimeType, operation)
collectFields(d, in) ==
  LET ctx == CollectFieldsContext(d, in, "fields", in.runtimeType) IN
  collectFieldsImpl(NewPass, {}, ctx, ctx.fragments[1].ss, NoDeferUsage, Undefined, <<>>)

\* collectSubfields(..., returnType, fieldGroup): one traversal per member
\* of the group that has a selection set, on shared accumulators.
RECURSIVE FieldGroupLoop(_, _, _, _)
FieldGroupLoop(cs, ctx, fieldGroup, m) ==
  IF cs.status # "ok" \/ m > Len(fieldGroup) THEN cs
  ELSE IF fieldGroup[m].node.sub = NoSet THEN FieldGroupLoop(cs, ctx, fieldGroup, m + 1)
  ELSE FieldGroupLoop(
         collectFieldsImpl(cs, {}, ctx, fieldGroup[m].node.sub, fieldGroup[m].deferUsage,
                           Undefined, <<m>>),
         ctx, fieldGroup, m + 1)

\* collectSubfields starting every member's traversal as not deferred.
collectSubfieldsNotDeferred(d, in, returnType, fieldGroup) ==
  FieldGroupLoop(NewPass, CollectFieldsContext(d, in, "subfields", returnType),
                 [m \in 1..Len(fieldGroup) |->
                    [fieldGroup[m] EXCEPT !.deferUsage = NoDeferUsage]], 1)

collectSubfields(d, in, returnType, fieldGroup) ==
  FieldGroupLoop(NewPass, CollectFieldsContext(d, in, "subfields", returnType), fieldGroup, 1)

(***************************************************************************)
(* The executor's use of field collection: collectFields on the operation, *)
(* then collectSubfields on one of the field groups it returned.           *)
(***************************************************************************)
Collecting == doc.fam = "collect"

\* Some member of the group has a selection set.
hasSubSelections(group) ==
  \E m \in 1..Len(group.details) : group.details[m].node.sub # NoSet

CollectFieldsCall ==
  /\ Collecting
  /\ cout.phase = "start"
  /\ cout' = [phase |-> "fields", fields |-> collectFields(doc, cin),
              key |-> "", sub |-> NewPass]
  /\ UNCHANGED <<doc, cin, vpos, pairs, cache, errors, vstatus>>

CollectSubfieldsCall ==
  /\ Collecting
  /\ cout.phase = "fields"
  /\ cout.fields.status = "ok"
  /\ \E g \in 1..Len(cout.fields.groupedFieldSet) :
       /\ hasSubSelections(cout.fields.groupedFieldSet[g])
       /\ cout' = [cout EXCEPT
                     !.phase = "subfields",
                     !.key = cout.fields.groupedFieldSet[g].key,
                     !.sub = collectSubfields(doc, cin, "Query",
                                              cout.fields.groupedFieldSet[g].details)]
  /\ UNCHANGED <<doc, cin, vpos, pairs, cache, errors, vstatus>>

InitCollect ==
  /\ doc \in CDocs
  /\ cin \in CInputs
  /\ cout = [phase |-> "start", fields |-> NewPass, key |-> "", sub |-> NewPass]
  /\ vpos = 0
  /\ pairs = EmptyPairSet
  /\ cache = [x \in {} |-> None]
  /\ errors = <<>>
  /\ vstatus = "ok"

NextCollect == CollectFieldsCall \/ CollectSubfieldsCall

SpecCollect == InitCollect /\ [][NextCollect]_vars

(***************************************************************************)
(* Vocabulary of the collector's properties.                               *)
(***************************************************************************)
\* The passes that have run, with their results.
PassResults ==
  (IF Collecting /\ cout.phase \in {"fields", "subfields"} THEN {cout.fields} ELSE {})
  \cup (IF Collecting /\ cout.phase = "subfields" THEN {cout.sub} ELSE {})

FieldsReturned == Collecting /\ cout.phase = "fields" /\ cout.fields.status = "ok"

\* All field details of a pass result.
Details(cs) ==
  UNION {{cs.groupedFieldSet[g].details[m] : m \in 1..Len(cs.groupedFieldSet[g].details)} :
           g \in 1..Len(cs.groupedFieldSet)}

\* p comes before q in a depth-first, left-to-right traversal: the
\* lexicographic order of positions.
RECURSIVE PositionLess(_, _)
PositionLess(p, q) ==
  IF q = <<>> THEN FALSE
  ELSE IF p = <<>> THEN TRUE
  ELSE IF Head(p) # Head(q) THEN Head(p) < Head(q)
  ELSE PositionLess(Tail(p), Tail(q))

ResponseKey(node) == IF node.alias = "" THEN node.name ELSE node.alias

\* The value of a directive condition at the top of the operation, where
\* only the operation's variables are in scope.
OperationCondition(c) ==
  CASE c = "none" -> "absent"
    [] c \in {"true", "false"} -> c
    [] c = "on" -> "true"
    [] OTHER -> IF cin.x = "absent" THEN "unset" ELSE cin.x
ExcludedByDirectives(node) ==
  OperationCondition(node.skip) = "true" \/ OperationCondition(node.incl) = "false"

RootSelections == CRootSelections(doc.r)
CollectedUnder(cs, i) == {d \in Details(cs) : Head(d.position) = i}

\* C5: in the grouped field set of every pass that returned, each group's
\* key is the response key of its members (alias, else name), the keys are
\* in the order their first members come in the depth-first, left-to-right
\* traversal with fragments expanded in place, and the members of a group
\* are in traversal order.
C5_OrderPreserved ==
  \A cs \in PassResults :
    cs.status = "ok" =>
      /\ \A g \in 1..Len(cs.groupedFieldSet) :
           LET details == cs.groupedFieldSet[g].details IN
           /\ Len(details) >= 1
           /\ \A m \in 1..Len(details) :
                ResponseKey(details[m].node) = cs.groupedFieldSet[g].key
           /\ \A m \in 1..(Len(details) - 1) :
                PositionLess(details[m].position, details[m + 1].position)
      /\ \A g \in 1..Len(cs.groupedFieldSet) : \A h \in 1..Len(cs.groupedFieldSet) :
           g < h =>
             /\ cs.groupedFieldSet[g].key # cs.groupedFieldSet[h].key
             /\ PositionLess(cs.groupedFieldSet[g].details[1].position,
                             cs.groupedFieldSet[h].details[1].position)

\* collectFields returned groups that interleave: a later key was first met
\* inside a fragment expansion, before the second member of an earlier,
\* aliased key.
C5_Witness ==
  /\ FieldsReturned
  /\ \E g \in 1..Len(cout.fields.groupedFieldSet) :
       \E h \in 1..Len(cout.fields.groupedFieldSet) :
         /\ g < h
         /\ Len(cout.fields.groupedFieldSet[g].details) >= 2
         /\ cout.fields.groupedFieldSet[g].details[1].node.alias # ""
         /\ Len(cout.fields.groupedFieldSet[h].details[1].position) >= 2
         /\ PositionLess(cout.fields.groupedFieldSet[h].details[1].position,
                         cout.fields.groupedFieldSet[g].details[2].position)

\* Every selection of the document's selection sets, nested ones included.
RECURSIVE AllSelections(_, _)
AllSelections(sels, i) ==
  IF i > Len(sels) THEN {}
  ELSE {sels[i]} \cup AllSelections(sels[i].sub.sels, 1) \cup AllSelections(sels, i + 1)
DocumentSelections ==
  UNION {AllSelections(CDefinitions(doc, cin.operation)[n].ss.sels, 1) : n \in 1..4}

\* No fragment spread of the document carries a @defer that can be active.
NoDeferredSpread ==
  \A s \in DocumentSelections : s.kind = "Spread" => s.defer \in {"none", "false"}

\* Some fragment is spread, directly or through another fragment, inside
\* its own selection set.
SpreadsInFragment(name) ==
  {s.name : s \in {t \in AllSelections(
                     FindFragment(CDefinitions(doc, cin.operation), name, 1).ss.sels, 1) :
                     t.kind = "Spread"}}
CyclicFragments ==
  \/ "F" \in SpreadsInFragment("F")
  \/ "F" \in SpreadsInFragment("G") /\ "G" \in SpreadsInFragment("F")

\* C6: on a document none of whose fragment spreads carries an active
\* @defer, collectFields and collectSubfields never recurse without bound,
\* also when fragments spread themselves or each other, and no selection
\* set is traversed twice in a pass: a visited fragment is not expanded
\* again.
C6_CollectionTerminates ==
  (Collecting /\ NoDeferredSpread) =>
    \A cs \in PassResults :
      /\ cs.status # "overflow"
      /\ \A d1 \in Details(cs) : \A d2 \in Details(cs) :
           (/\ d1.selectionSet = d2.selectionSet
            /\ d1.position[Len(d1.position)] = d2.position[Len(d2.position)]) =>
             d1.position = d2.position

\* collectFields returned on a document with a fragment cycle and no
\* deferred spread, having expanded the fragments on the cycle.
C6_Witness ==
  /\ FieldsReturned
  /\ NoDeferredSpread
  /\ CyclicFragments
  /\ "F" \in cout.fields.visitedFragmentNames
  /\ Len(cout.fields.groupedFieldSet) >= 1

\* Top-level selections of the operation, by kind.
RootFields == {i \in 1..Len(RootSelections) : RootSelections[i].kind = "Field"}
RootInlineFragments ==
  {i \in 1..Len(RootSelections) :
     /\ RootSelections[i].kind = "Inline"
     /\ RootSelections[i].tc \in {"", cin.runtimeType}
     /\ RootSelections[i].sub.sels[1].kind = "Field"
     /\ RootSelections[i].sub.sels[1].skip = "none"
     /\ RootSelections[i].sub.sels[1].incl = "none"}
RootSpreads == {i \in 1..Len(RootSelections) : RootSelections[i].kind = "Spread"}

\* C7: a top-level field of the operation is collected, and a top-level
\* inline fragment (whose type condition matches) has its first field
\* collected, exactly when neither @skip has if = true nor @include has
\* if = false, conditions being read in the operation's variables: skip
\* true / include true excludes, skip false / include false excludes, skip
\* false / include true includes, no directive includes.
C7_SkipIncludeOnFieldsAndInlineFragments ==
  FieldsReturned =>
    /\ \A i \in RootFields :
         (\E d \in Details(cout.fields) : d.position = <<i>>)
           <=> ~ExcludedByDirectives(RootSelections[i])
    /\ \A i \in RootInlineFragments :
         (\E d \in Details(cout.fields) : d.position = <<i, 1>>)
           <=> ~ExcludedByDirectives(RootSelections[i])

\* collectFields returned for the four combinations on fields, or on
\* inline fragments: only `y` (skip false, include true) and `z` (no
\* directive) were collected.
C7_Witness ==
  /\ FieldsReturned
  /\ \E i \in RootFields \cup RootInlineFragments :
       /\ RootSelections[i].skip = "true"
       /\ RootSelections[i].incl = "true"
  /\ \E i \in RootFields \cup RootInlineFragments :
       /\ RootSelections[i].skip = "false"
       /\ RootSelections[i].incl = "false"
  /\ Len(cout.fields.groupedFieldSet) = 2
  /\ cout.fields.groupedFieldSet[1].key = "y"
  /\ cout.fields.groupedFieldSet[2].key = "z"

\* C8: a top-level fragment spread whose @skip has if = true or whose
\* @include has if = false contributes nothing, whatever else it carries:
\* no field of the fragment is collected for it and no defer usage is
\* recorded for it.
C8_SkipExcludesSpreads ==
  FieldsReturned =>
    \A i \in RootSpreads :
      ExcludedByDirectives(RootSelections[i]) =>
        /\ CollectedUnder(cout.fields, i) = {}
        /\ \A u \in 1..Len(cout.fields.newDeferUsages) :
             cout.fields.newDeferUsages[u].at # <<i>>

\* The part of a collectFields result collected under top-level selection
\* i: whether it returned, and the keys and field details in order.
ResultUnder(cs, i) ==
  [status |-> cs.status,
   groups |-> SelectSeq(
     [g \in 1..Len(cs.groupedFieldSet) |->
        [key |-> cs.groupedFieldSet[g].key,
         details |-> SelectSeq(
           [m \in 1..Len(cs.groupedFieldSet[g].details) |->
              [node |-> cs.groupedFieldSet[g].details[m].node,
               position |-> cs.groupedFieldSet[g].details[m].position,
               fragmentVariableValues |->
                 cs.groupedFieldSet[g].details[m].fragmentVariableValues]],
           LAMBDA d : Head(d.position) = i)]],
     LAMBDA group : group.details # <<>>)]

\* Fragment F declares $x without a default.
DeclaresXWithoutDefault ==
  \E v \in 1..Len(CFragFVariables(doc.fv)) :
    /\ CFragFVariables(doc.fv)[v].name = "x"
    /\ ~CFragFVariables(doc.fv)[v].hasDefault

\* C3: when the operation's first selection is a spread of F, F declares
\* $x without a default and the spread supplies no x, what collectFields
\* collects under the spread (which selections pass their conditions on
\* $x, and the scope recorded on each field detail) is the same for every
\* value the operation's variables give to x.
C3_FragmentArgumentLocality ==
  (/\ Collecting /\ cout.phase = "fields"
   /\ DeclaresXWithoutDefault
   /\ RootSelections[1].kind = "Spread"
   /\ RootSelections[1].name = "F"
   /\ RootSelections[1].args = <<>>) =>
    \A x \in {"true", "false", "absent"} :
      ResultUnder(collectFields(doc, [cin EXCEPT !.x = x]), 1)
        = ResultUnder(cout.fields, 1)

\* C4: every field detail is recorded under the fragment scope of the
\* spread whose expansion encloses it (none at the top of the pass): a
\* spread's scope does not outlive its expansion, so what follows the
\* spread is recorded under the scope in effect before it.
C4_ScopeEndsWithExpansion ==
  \A cs \in PassResults :
    \A d \in Details(cs) : d.fragmentVariableValues = d.scope

(***************************************************************************)
(* Direct calls of the pure functions, on inputs drawn from bounded sets:  *)
(* findFieldConflicts / doTypesConflict on a pair of fields with given     *)
(* return types, and the fragment argument substitution functions on given *)
(* variable definitions and spread arguments.                              *)
(***************************************************************************)
MaxWrap == 2

\* The return types given to a pair of fields: wrapper sequences of at most
\* MaxWrap layers (NonNull never wraps NonNull) around a named type, or
\* NoType: no field definition.
TypeDocs ==
  LET Wraps == {w \in UNION {[1..n -> {"L", "N"}] : n \in 0..MaxWrap} :
                  \A i \in 1..(Len(w) - 1) : ~(w[i] = "N" /\ w[i + 1] = "N")}
      OutputTypes == {Ty(w, n) : w \in Wraps, n \in {"Int", "String", "Query", "Pet"}}
  IN [fam : {"types"}, type1 : OutputTypes \cup {NoType},
      type2 : OutputTypes \cup {NoType}, flag : BOOLEAN]

\* A NodeAndDef [parentType, node, def] for a field x of Query whose
\* definition has the given type.
NodeAndDef(type) == [parentType |-> "Query", node |-> Field("", "x", <<>>), def |-> type]

NewValidatorState ==
  [pairs |-> EmptyPairSet, cache |-> [x \in {} |-> None], conflicts |-> <<>>,
   status |-> "ok", ret |-> NoConflict, compared |-> {}]

DoTypesConflictCall ==
  /\ doc.fam = "types"
  /\ cout = Idle
  /\ doc.type1 # NoType /\ doc.type2 # NoType
  /\ cout' = [phase |-> "doTypesConflict", result |-> doTypesConflict(doc.type1, doc.type2)]
  /\ UNCHANGED <<doc, cin, vpos, pairs, cache, errors, vstatus>>

FindFieldConflictsCall ==
  /\ doc.fam = "types"
  /\ cout = Idle
  /\ cout' = [phase |-> "findFieldConflicts",
              result |-> findFieldConflicts(NewValidatorState, {}, doc.flag, "x",
                           NodeAndDef(doc.type1), NodeAndDef(doc.type2)).ret]
  /\ UNCHANGED <<doc, cin, vpos, pairs, cache, errors, vstatus>>

MaxVars == 2
MaxArgs == 2

\* The inputs of the substitution functions: at most MaxVars variable
\* signatures with distinct names, each with or without a default value
\* expression, and at most MaxArgs arguments supplied by the spread (none:
\* an absent or empty list).
SubstituteDocs ==
  LET VariableSignatures ==
        {VarDef(n, FALSE, UnsetMarker) : n \in {"limit", "x"}}
          \cup {VarDef(n, TRUE, IntV(10)) : n \in {"limit", "x"}}
      SuppliedArguments ==
        {Arg(n, v) : n \in {"limit", "x"}, v \in {IntV(1), VarV("limit")}}
  IN [fam : {"substitute"},
      vars : {vs \in UNION {[1..n -> VariableSignatures] : n \in 0..MaxVars} :
                \A i, j \in 1..Len(vs) : i # j => vs[i].name # vs[j].name},
      args : UNION {[1..n -> SuppliedArguments] : n \in 0..MaxArgs}]

FragmentArgumentSubstitutionsCall ==
  /\ doc.fam = "substitute"
  /\ cout = Idle
  /\ cout' = [phase |-> "fragmentArgumentSubstitutions",
              result |-> fragmentArgumentSubstitutions(doc.vars, doc.args)]
  /\ UNCHANGED <<doc, cin, vpos, pairs, cache, errors, vstatus>>

SubstituteFragmentArgumentsCall ==
  /\ doc.fam = "substitute"
  /\ cout = Idle
  /\ cout' = [phase |-> "substituteFragmentArguments",
              result |-> substituteFragmentArguments(
                           FragmentDefinition("F", "Query", doc.vars,
                                              SelSet(20, <<f("foo")>>)),
                           Spread("F", doc.args))]
  /\ UNCHANGED <<doc, cin, vpos, pairs, cache, errors, vstatus>>

\* Pairs of fields given to findFieldConflicts under one response key.
\* The first family varies what the stream check sees: each field's @stream
\* usage, and parent types, names, arguments and the caller's flag, which
\* decide whether the pair is mutually exclusive and reaches the check.
\* The second gives two fields `a` of Query sub-selection sets (or none)
\* that agree, or differ in one or two response keys, directly or one
\* level further down; the sets of the second field are other nodes.
FieldPairDocs ==
  LET StreamUsages ==
        {NoStream, Stream(<<>>),
         Stream(<<Arg("initialCount", IntV(1))>>),
         Stream(<<Arg("initialCount", IntV(2))>>),
         Stream(<<Arg("initialCount", IntV(1)), Arg("label", IntV(1))>>),
         Stream(<<Arg("label", IntV(1)), Arg("initialCount", IntV(1))>>)}
      StreamedFields ==
        {[parentType |-> p, node |-> WithStream(Field("k", n, a), s),
          def |-> getFields(p, n)] :
           p \in {"Dog", "Cat", "Pet"}, n \in {"name", "x"},
           a \in {<<>>, <<Arg("x", IntV(1))>>}, s \in StreamUsages}
      SubSelections(id) ==
        {NoSet,
         SelSet(id, <<Field("a", "foo", <<>>)>>),
         SelSet(id, <<Field("a", "bar", <<>>), fooX("b", 1)>>),
         SelSet(id, <<Field("a", "foo", <<>>), fooX("b", 2)>>),
         SelSet(id, <<FieldS("o", "a", SelSet(id + 1,
                        <<Field("a", "foo", <<>>), Field("b", "str", <<>>)>>)),
                      Field("a", "foo", <<>>)>>),
         SelSet(id, <<FieldS("o", "a", SelSet(id + 1,
                        <<Field("a", "bar", <<>>), Field("b", "foo", <<>>)>>)),
                      Field("a", "bar", <<>>)>>)}
      FieldsWithSubSelections(id) ==
        {[parentType |-> "Query", node |-> FieldS("k", "a", ss),
          def |-> getFields("Query", "a")] : ss \in SubSelections(id)}
  IN [fam : {"fields"}, flag : BOOLEAN, field1 : StreamedFields, field2 : StreamedFields]
       \cup [fam : {"fields"}, flag : BOOLEAN, field1 : FieldsWithSubSelections(2),
              field2 : FieldsWithSubSelections(4)]

FindFieldConflictsOfPairCall ==
  /\ doc.fam = "fields"
  /\ cout = Idle
  /\ \E st \in {findFieldConflicts(NewValidatorState, {}, doc.flag, "k",
                                   doc.field1, doc.field2)} :
       cout' = [phase |-> "findFieldConflictsOfPair", result |-> st.ret,
                status |-> st.status]
  /\ UNCHANGED <<doc, cin, vpos, pairs, cache, errors, vstatus>>

\* Two selection sets on Query given to findConflictsBetweenSubSelectionSets
\* in both orders, with the fragments A and B they may spread.  Fields
\* behind one response key agree or differ in name or arguments (argument
\* lists may repeat a name: the rule runs on every parsed document); `warm`
\* says the caches are those left by the visit of a selection set { ...A }
\* instead of fresh ones.
SelectionSetPairDocs ==
  LET SelectionSets(id) ==
        {SelSet(id, <<Field("a", "foo", <<>>)>>),
         SelSet(id, <<Field("a", "bar", <<>>), fooX("b", 1)>>),
         SelSet(id, <<Field("a", "foo", <<Arg("x", IntV(1)), Arg("x", IntV(1))>>)>>),
         SelSet(id, <<Field("a", "foo", <<Arg("x", IntV(1)), Arg("y", IntV(2))>>)>>),
         SelSet(id, <<sA>>),
         SelSet(id, <<fooX("b", 2), sB>>),
         SelSet(id, <<FieldS("", "a", SelSet(id + 1, <<Field("a", "foo", <<>>), sB>>))>>)}
  IN [fam : {"sets"}, set1 : SelectionSets(2), set2 : SelectionSets(4),
      a : VFragAs, b : VFragBs, av : {0}, pre : {0}, r : {1}, warm : BOOLEAN]

\* The comparison in both orders, each from the same caches: fresh ones, or
\* those left by the visit of { ...A }.
BetweenSubSelectionSetsCall ==
  /\ doc.fam = "sets"
  /\ cout = Idle
  /\ \E start \in {IF doc.warm
                    THEN [findConflictsWithinSelectionSet(NewValidatorState, "Query",
                                                          SelSet(10, <<sA>>))
                            EXCEPT !.conflicts = <<>>]
                    ELSE NewValidatorState} :
       \E run \in {[forward \in BOOLEAN |->
                     findConflictsBetweenSubSelectionSets(
                       start, {}, FALSE,
                       "Query", IF forward THEN doc.set1 ELSE doc.set2,
                       "Query", IF forward THEN doc.set2 ELSE doc.set1)]} :
         cout' = [phase |-> "findConflictsBetweenSubSelectionSets",
                  forward |-> [status |-> run[TRUE].status,
                               conflicts |-> run[TRUE].conflicts],
                  backward |-> [status |-> run[FALSE].status,
                                conflicts |-> run[FALSE].conflicts]]
  /\ UNCHANGED <<doc, cin, vpos, pairs, cache, errors, vstatus>>

MaxAdds == 4

\* A PairSet used on its own, on the keys of the spreads ...A, ...A(v: 1)
\* and ...B: `pairs` is its _data.  cout keeps what the calls did: the
\* number of add calls, the flag of the most recent add of each unordered
\* pair, and the has call made since the last add, with its answer and the
\* answer for the keys in the other order.
PairSetDocs ==
  [fam : {"pairset"},
   keys : {{keyForFragmentSpread(s) : s \in {sA, sB, Spread("A", <<Arg("v", IntV(1))>>)}}}]

PairSetCalls ==
  IF cout = Idle THEN [phase |-> "pairset", adds |-> 0, last |-> [p \in {} |-> FALSE],
                       asked |-> <<>>, answer |-> FALSE, reverse |-> FALSE]
  ELSE cout

PairSetAddCall ==
  /\ doc.fam = "pairset"
  /\ PairSetCalls.adds < MaxAdds
  /\ \E a \in doc.keys : \E b \in doc.keys : \E areMutuallyExclusive \in BOOLEAN :
       /\ pairs' = PairSetAdd(pairs, a, b, areMutuallyExclusive)
       /\ cout' = [PairSetCalls EXCEPT
                     !.adds = @ + 1,
                     !.last = ({a, b} :> areMutuallyExclusive) @@ @,
                     !.asked = <<>>]
  /\ UNCHANGED <<doc, cin, vpos, cache, errors, vstatus>>

PairSetHasCall ==
  /\ doc.fam = "pairset"
  /\ \E a \in doc.keys : \E b \in doc.keys : \E areMutuallyExclusive \in BOOLEAN :
       cout' = [PairSetCalls EXCEPT
                  !.asked = <<a, b, areMutuallyExclusive>>,
                  !.answer = PairSetHas(pairs, a, b, areMutuallyExclusive),
                  !.reverse = PairSetHas(pairs, b, a, areMutuallyExclusive)]
  /\ UNCHANGED <<doc, cin, vpos, pairs, cache, errors, vstatus>>

InitFunctions ==
  /\ doc \in TypeDocs \cup SubstituteDocs \cup FieldPairDocs \cup PairSetDocs
  /\ cin = Idle
  /\ cout = Idle
  /\ vpos = 0
  /\ pairs = EmptyPairSet
  /\ cache = [x \in {} |-> None]
  /\ errors = <<>>
  /\ vstatus = "ok"

NextFunctions ==
  \/ DoTypesConflictCall
  \/ FindFieldConflictsCall
  \/ FragmentArgumentSubstitutionsCall
  \/ SubstituteFragmentArgumentsCall
  \/ FindFieldConflictsOfPairCall
  \/ PairSetAddCall
  \/ PairSetHasCall

SpecFunctions == InitFunctions /\ [][NextFunctions]_vars

\* findConflictsBetweenSubSelectionSets called on two selection sets, in
\* both orders.
InitSubSelectionSets ==
  /\ doc \in SelectionSetPairDocs
  /\ cin = Idle
  /\ cout = Idle
  /\ vpos = 0
  /\ pairs = EmptyPairSet
  /\ cache = [x \in {} |-> None]
  /\ errors = <<>>
  /\ vstatus = "ok"

SpecSubSelectionSets == InitSubSelectionSets /\ [][BetweenSubSelectionSetsCall]_vars

(***************************************************************************)
(* Properties of the pure functions.                                       *)
(***************************************************************************)
Called(name) == doc.fam \in {"types", "substitute"} /\ cout # Idle /\ cout.phase = name

\* The two types differ in a wrapper layer: peeling both in lockstep ends
\* at a layer where one is a list and the other is not, or one is non-null
\* and the other is not.
WrappersDiffer(type1, type2) == type1.wrap # type2.wrap

ReturnTypesConflict(type1, type2) ==
  \/ WrappersDiffer(type1, type2)
  \/ /\ type1.named \in LeafTypes \/ type2.named \in LeafTypes
     /\ type1.named # type2.named

\* C11: doTypesConflict is true exactly when the two types differ in a
\* wrapper layer or, with equal wrappers, at least one named type is a leaf
\* type and the named types differ (two composite types never conflict);
\* findFieldConflicts reports "they return conflicting types" for two
\* fields equal in name, arguments and stream usage exactly when both
\* definitions are known and their types conflict in that sense.
C11_ReturnTypeConflicts ==
  /\ Called("doTypesConflict") =>
       (cout.result <=> ReturnTypesConflict(doc.type1, doc.type2))
  /\ Called("findFieldConflicts") =>
       IF doc.type1 # NoType /\ doc.type2 # NoType
          /\ ReturnTypesConflict(doc.type1, doc.type2)
       THEN cout.result.kind = "FIELD" /\ cout.result.msg = "they return conflicting types"
       ELSE cout.result = NoConflict

C11_Witness ==
  /\ Called("findFieldConflicts")
  /\ doc.type1 = Ty(<<"L", "N">>, "Int")
  /\ doc.type2 = Ty(<<"L">>, "Int")
  /\ cout.result.msg = "they return conflicting types"

\* The value expressions the spread supplies for a name.
SuppliedFor(name) == {doc.args[j].value : j \in {j \in 1..Len(doc.args) : doc.args[j].name = name}}

\* The binding the precedence rule gives a declared variable: a supplied
\* value, else the default, else the unset marker.
ResolvesTo(variableDefinition, value) ==
  IF SuppliedFor(variableDefinition.name) # {}
  THEN value \in SuppliedFor(variableDefinition.name)
  ELSE IF variableDefinition.hasDefault THEN value = variableDefinition.default
  ELSE value = VarV("__UNSET")

\* `map` binds `name` once, to a value the precedence rule allows.
BindsAsDeclared(map, variableDefinition) ==
  /\ Cardinality({k \in 1..Len(map) : map[k].key = variableDefinition.name}) = 1
  /\ \A k \in 1..Len(map) :
       map[k].key = variableDefinition.name => ResolvesTo(variableDefinition, map[k].value)

\* C14: the mapping fragmentArgumentSubstitutions returns binds every
\* declared variable name to the value the spread supplies for it, else to
\* the signature's default, else to the unset marker $__UNSET.
C14_SubstitutionPrecedence ==
  Called("fragmentArgumentSubstitutions") =>
    \A i \in 1..Len(doc.vars) : BindsAsDeclared(cout.result, doc.vars[i])

C14_Witness ==
  /\ Called("fragmentArgumentSubstitutions")
  /\ doc.vars = <<VarDef("limit", TRUE, IntV(10)), VarDef("x", FALSE, UnsetMarker)>>
  /\ doc.args = <<>>
  /\ cout.result = <<[key |-> "limit", value |-> IntV(10)],
                     [key |-> "x", value |-> VarV("__UNSET")]>>

\* C15: for a fragment that declares variables, what
\* substituteFragmentArguments returns resolves every declared variable,
\* the first one included, to the supplied value, else the default, else
\* the unset marker.
C15_EveryDeclaredVariableResolved ==
  (Called("substituteFragmentArguments") /\ Len(doc.vars) >= 1) =>
    \A i \in 1..Len(doc.vars) : BindsAsDeclared(cout.result.own, doc.vars[i])

(***************************************************************************)
(* Mutual exclusivity.                                                     *)
(***************************************************************************)
\* `pet { ... on t1 { owner {..} } ... on t2 { owner {..} } }`: the visit of
\* pet's selection set, which compares the two owner fields, has ended.
OwnersCompared == Validating /\ doc.r = 0 /\ vpos = 2 /\ vstatus = "ok"

\* t1 and t2 are different object types.
OwnersExclusive ==
  doc.t1 # doc.t2 /\ doc.t1 \in ObjectTypes /\ doc.t2 \in ObjectTypes

DifferentFields(key) ==
  [kind |-> "FIELD", name |-> key, msg |-> "different fields", sub |-> <<>>]
NestedReason(key, reasons) ==
  [kind |-> "FIELD", name |-> key, msg |-> "nested", sub |-> reasons]
HasReason(reasons, reason) == \E k \in 1..Len(reasons) : reasons[k] = reason

\* The flag recorded for the comparison of spreads ...A and ...B.
RecordedFlag(s1, s2) == pairs[PairKey(keyForFragmentSpread(s1), keyForFragmentSpread(s2))]
Recorded(s1, s2) ==
  PairKey(keyForFragmentSpread(s1), keyForFragmentSpread(s2)) \in DOMAIN pairs

\* The fields of the fragments the visited selection set spreads directly.
DirectSpreads == {i \in 1..Len(LastEntry.fragmentSpreads) :
                    LET F == LastEntry.fragmentSpreads[i].node.name IN
                    getFragment(F).kind # "none" /\ getFragment(F).ss.id # LastVisited.ss.id}
SpreadEntry(i) == FragmentEntry(LastEntry.fragmentSpreads[i].node.name)

\* C12: a pair of fields is mutually exclusive exactly when the inherited
\* flag is true or the parent types are different object types.  (1) The
\* owner fields under type conditions t1 and t2 are compared with the flag
\* false: when t1 and t2 are different object types nothing below them is
\* reported, neither the differing field behind `a` nor the one a level
\* further down, and the comparison of the spreads in their sub-selections
\* is recorded as exclusive; for every other t1, t2 (same type, an interface
\* or an unknown type on either side) both are reported, nested under
\* owner, and the spreads' comparison is recorded as not exclusive.
\* (2) Comparisons started by a visit use the flag false: own fields, and
\* own fields against the fields of a directly spread fragment, that are
\* not under different object types and differ in name or arguments are
\* reported; two spreads of the visited set are recorded as not exclusive.
C12_MutualExclusivity ==
  /\ OwnersCompared =>
       /\ Recorded(sA, sB)
       /\ RecordedFlag(sA, sB) = OwnersExclusive
       /\ OwnersExclusive => ~\E n \in 1..Len(errors) : errors[n].at = 2
       /\ ~OwnersExclusive =>
            \E n \in 1..Len(errors) :
              /\ errors[n].at = 2 /\ errors[n].name = "owner" /\ errors[n].msg = "nested"
              /\ HasReason(errors[n].sub, DifferentFields("a"))
              /\ HasReason(errors[n].sub, NestedReason("o", <<DifferentFields("a")>>))
  /\ (Validating /\ vpos >= 1 /\ vstatus = "ok") =>
       /\ \A t \in OwnPairs :
            (~ExclusiveParents(OwnFirst(t), OwnSecond(t))
               /\ NamesOrArgumentsDiffer(OwnFirst(t), OwnSecond(t))) =>
              ReportedAt(LastVisited.ss.id, OwnKey(t),
                         NameOrArgumentReason(OwnFirst(t), OwnSecond(t)),
                         OwnFirst(t).node, OwnSecond(t).node)
       /\ \A s \in DirectSpreads :
            \A i \in 1..Len(LastEntry.nodeAndDefs) :
              \A i2 \in 1..Len(SpreadEntry(s).nodeAndDefs) :
                LastEntry.nodeAndDefs[i].key = SpreadEntry(s).nodeAndDefs[i2].key =>
                  \A j \in 1..Len(LastEntry.nodeAndDefs[i].fields) :
                    \A k \in 1..Len(SpreadEntry(s).nodeAndDefs[i2].fields) :
                      LET f1 == LastEntry.nodeAndDefs[i].fields[j]
                          f2 == SpreadEntry(s).nodeAndDefs[i2].fields[k]
                      IN (~ExclusiveParents(f1, f2) /\ NamesOrArgumentsDiffer(f1, f2)) =>
                           ReportedAt(LastVisited.ss.id, LastEntry.nodeAndDefs[i].key,
                                      NameOrArgumentReason(f1, f2), f1.node, f2.node)
       /\ \A s1, s2 \in DirectSpreads :
            LastEntry.fragmentSpreads[s1].node.name # LastEntry.fragmentSpreads[s2].node.name =>
              /\ Recorded(LastEntry.fragmentSpreads[s1].node, LastEntry.fragmentSpreads[s2].node)
              /\ ~RecordedFlag(LastEntry.fragmentSpreads[s1].node,
                               LastEntry.fragmentSpreads[s2].node)

\* Owners under Dog and Cat were compared as exclusive and nothing was
\* reported, although `a` is foo on one side and bar on the other.
C12_Witness ==
  /\ OwnersCompared /\ doc.t1 = "Dog" /\ doc.t2 = "Cat"
  /\ RecordedFlag(sA, sB) = TRUE
  /\ errors = <<>>

(***************************************************************************)
(* Spreads of one fragment with different arguments.                       *)
(***************************************************************************)
\* The pairs of spreads of the visited selection set that name the same
\* fragment (their keys differ: the set keeps one spread per key).
SameFragmentSpreadPairs ==
  {p \in (1..Len(LastEntry.fragmentSpreads)) \X (1..Len(LastEntry.fragmentSpreads)) :
     /\ p[1] < p[2]
     /\ LastEntry.fragmentSpreads[p[1]].node.name = LastEntry.fragmentSpreads[p[2]].node.name}

DifferentFragmentArguments(name) ==
  [kind |-> "FRAGMENT_SPREAD", name |-> name,
   msg |-> "have different fragment arguments", sub |-> <<>>]

SpreadsReported(s1, s2) ==
  \E n \in 1..Len(errors) :
    /\ errors[n].message = "Spreads conflict"
    /\ errors[n].name = s1.name
    /\ errors[n].msg = "have different fragment arguments"
    /\ errors[n].nodes \in {<<s1, s2>>, <<s2, s1>>}

\* C13: (1) once a selection set has been visited, every two of its spreads
\* that name the same fragment with different arguments have been reported
\* as a spreads conflict whose two paths are the two spreads; (2) no
\* reported spreads conflict is between two spreads with the same key;
\* (3) two such spreads met under mutually exclusive owner fields (under
\* Dog and under Cat) are reported as well, nested under owner.
C13_SameFragmentDifferentArguments ==
  /\ (Validating /\ vpos >= 1) =>
       \A p \in SameFragmentSpreadPairs :
         SpreadsReported(LastEntry.fragmentSpreads[p[1]].node,
                         LastEntry.fragmentSpreads[p[2]].node)
  /\ Validating =>
       \A n \in 1..Len(errors) :
         errors[n].message = "Spreads conflict" =>
           keyForFragmentSpread(errors[n].nodes[1]) # keyForFragmentSpread(errors[n].nodes[2])
  /\ (Validating /\ doc.r = 15 /\ vpos >= 1 /\ LastVisited.ss.id = 2) =>
       \E n \in 1..Len(errors) :
         /\ errors[n].at = 2 /\ errors[n].name = "owner"
         /\ HasReason(errors[n].sub, DifferentFragmentArguments("A"))

(***************************************************************************)
(* Scope inheritance (C16).  The scope the specification puts in effect at *)
(* a position of a pass is computed here from the document alone, walking  *)
(* the position from the pass's starting selection set: a spread of a      *)
(* fragment that declares variables starts a new scope, a spread of a      *)
(* fragment without variables and an inline fragment keep the scope they   *)
(* occur in.  `inherited` says that the innermost spread on the way is of  *)
(* a fragment without variables, met while a scope was in effect.          *)
(***************************************************************************)
RECURSIVE EnclosingScope(_, _, _)
EnclosingScope(sels, path, acc) ==
  IF Len(path) <= 1 THEN acc
  ELSE
    LET s == sels[Head(path)]
        fragment == FindFragment(CDefinitions(doc, cin.operation), s.name, 1)
    IN
    IF s.kind # "Spread" THEN EnclosingScope(s.sub.sels, Tail(path), acc)
    ELSE IF Len(fragment.vars) > 0
    THEN EnclosingScope(fragment.ss.sels, Tail(path),
           [scope |-> getArgumentValuesFromSpread(s, fragment.vars,
                        OperationVariables(cin.x), acc.scope),
            inherited |-> FALSE])
    ELSE EnclosingScope(fragment.ss.sels, Tail(path),
           [scope |-> acc.scope, inherited |-> acc.scope.defined])

TopOfPass == [scope |-> Undefined, inherited |-> FALSE]

\* The field details collectFields collected inside a fragment without
\* variables that inherits a scope, each with that scope.
InheritingDetails ==
  {[detail |-> d, scope |-> EnclosingScope(RootSelections, d.position, TopOfPass).scope] :
     d \in {e \in Details(cout.fields) :
              EnclosingScope(RootSelections, e.position, TopOfPass).inherited}}

\* C16: every field collectFields collected from a fragment without
\* variables that is spread inside the expansion of a fragment declaring
\* variables passed its @skip/@include under the enclosing fragment's scope
\* and is recorded with that scope.
C16_VariablelessFragmentInheritsScope ==
  (Collecting /\ cout.phase = "fields") =>
    \A i \in InheritingDetails :
      /\ i.detail.fragmentVariableValues = i.scope
      /\ shouldIncludeNode(
           mergedVariableValues(OperationVariables(cin.x), i.scope), i.detail.node)

(***************************************************************************)
(* @defer and the operation type (C17).                                    *)
(***************************************************************************)
\* The field group collectSubfields was called on.
ChosenGroup ==
  cout.fields.groupedFieldSet[IndexOfKey(cout.fields.groupedFieldSet, cout.key, 1)].details

\* The selection sets a pass starts from: the operation's for collectFields,
\* the sub-selection sets of the group's members for collectSubfields.
FieldsStart == {RootSelections}
SubfieldsStart ==
  {ChosenGroup[m].node.sub.sels :
     m \in {n \in 1..Len(ChosenGroup) : ChosenGroup[n].node.sub # NoSet}}

\* A fragment selection at the top of a pass that is traversed on objects
\* of `type`: included, its fragment defined, the type condition matching.
Traversed(s, type) ==
  /\ s.kind \in {"Inline", "Spread"}
  /\ ~ExcludedByDirectives(s)
  /\ IF s.kind = "Inline" THEN doesFragmentConditionMatch(s.tc, type)
     ELSE LET fragment == FindFragment(CDefinitions(doc, cin.operation), s.name, 1) IN
          /\ fragment.kind # "none"
          /\ doesFragmentConditionMatch(fragment.tc, type)

\* @defer is present with `if` not false, read in the operation's variables.
ActiveDefer(s) == OperationCondition(s.defer) \notin {"absent", "false"}

EntersDeferred(start, type) ==
  \E sels \in start : \E i \in 1..Len(sels) : Traversed(sels[i], type) /\ ActiveDefer(sels[i])

\* Every @defer of the document is written with if: false.
EveryDeferDisabled == \A s \in DocumentSelections : s.defer \in {"none", "false"}

\* C17: on a subscription, a pass that enters, at the top of its starting
\* selection sets, an inline fragment or spread whose @defer is active
\* aborts with the invariant error, and a pass that returned created no
\* defer usage and attributed no field to one; when every @defer of the
\* document has if: false no pass aborts or creates a defer usage; on a
\* query no pass aborts with the invariant error.
C17_DeferOnSubscriptions ==
  Collecting =>
    /\ (cin.operation = "subscription" /\ cout.phase # "start"
        /\ EntersDeferred(FieldsStart, cin.runtimeType)) =>
         cout.fields.status = "invariant"
    /\ (cin.operation = "subscription" /\ cout.phase = "subfields"
        /\ EntersDeferred(SubfieldsStart, "Query")) =>
         cout.sub.status = "invariant"
    /\ cin.operation = "subscription" =>
         \A cs \in PassResults :
           /\ cs.status = "invariant" => cs.newDeferUsages = <<>>
           /\ cs.status = "ok" =>
                /\ cs.newDeferUsages = <<>>
                /\ \A d \in Details(cs) : d.deferUsage = NoDeferUsage
    /\ (cin.operation = "subscription" /\ EveryDeferDisabled) =>
         \A cs \in PassResults : cs.status = "ok" /\ cs.newDeferUsages = <<>>
    /\ cin.operation = "query" =>
         \A cs \in PassResults : cs.status # "invariant"

\* On a subscription collectFields returned and collectSubfields, entering
\* a deferred inline fragment of the group's sub-selections, aborted.
C17_Witness ==
  /\ Collecting
  /\ cin.operation = "subscription"
  /\ cout.phase = "subfields"
  /\ cout.fields.status = "ok"
  /\ EntersDeferred(SubfieldsStart, "Query")
  /\ cout.sub.status = "invariant"

(***************************************************************************)
(* Silent skips (C18): a selection at the top of the operation that is     *)
(* skipped contributes nothing, so collectFields gives the same outcome    *)
(* on the operation without it.                                            *)
(***************************************************************************)
\* Top-level selection i is one the specification skips silently: @skip /
\* @include exclude it, or it spreads a fragment whose type condition does
\* not match the runtime type, or it is a spread without active @defer of a
\* fragment an earlier top-level spread without @defer has visited.
SilentlySkipped(i) ==
  LET s == RootSelections[i]
      fragment == FindFragment(CDefinitions(doc, cin.operation), s.name, 1)
  IN
  \/ ExcludedByDirectives(s)
  \/ /\ s.kind = "Spread"
     /\ fragment.kind # "none"
     /\ ~doesFragmentConditionMatch(fragment.tc, cin.runtimeType)
  \/ /\ s.kind = "Spread"
     /\ ~ActiveDefer(s)
     /\ \E j \in 1..(i - 1) :
          /\ RootSelections[j].kind = "Spread"
          /\ RootSelections[j].name = s.name
          /\ ~ActiveDefer(RootSelections[j])
          /\ Traversed(RootSelections[j], cin.runtimeType)

\* What a pass gives back and leaves behind, without the positions: whether
\* it raised an error, the grouped fields, the labels of the new defer
\* usages, and the visited fragment names.
Outcome(cs) ==
  [status |-> cs.status,
   groups |-> [g \in 1..Len(cs.groupedFieldSet) |->
                 [key |-> cs.groupedFieldSet[g].key,
                  details |-> [m \in 1..Len(cs.groupedFieldSet[g].details) |->
                    [node |-> cs.groupedFieldSet[g].details[m].node,
                     label |-> cs.groupedFieldSet[g].details[m].deferUsage.label,
                     fragmentVariableValues |->
                       cs.groupedFieldSet[g].details[m].fragmentVariableValues]]]],
   usages |-> [u \in 1..Len(cs.newDeferUsages) |-> cs.newDeferUsages[u].label],
   visited |-> cs.visitedFragmentNames]

\* collectFields on the operation without its top-level selection i.
CollectWithout(i) ==
  collectFieldsImpl(NewPass, {}, CollectFieldsContext(doc, cin, "fields", cin.runtimeType),
                    SelSet(1, SubSeq(RootSelections, 1, i - 1)
                                \o SubSeq(RootSelections, i + 1, Len(RootSelections))),
                    NoDeferUsage, Undefined, <<>>)

\* C18: for every operation type, every top-level selection that is
\* silently skipped, whatever else it carries, leaves the outcome of
\* collectFields as it is without the selection: no error, no field, no
\* defer usage and no visited name comes from it.
C18_SilentSkips ==
  (Collecting /\ cout.phase = "fields") =>
    \A i \in 1..Len(RootSelections) :
      SilentlySkipped(i) => Outcome(cout.fields) = Outcome(CollectWithout(i))

(***************************************************************************)
(* newDeferUsages (C19).                                                   *)
(***************************************************************************)
\* The selection at a position below the selection sets `sels`, spreads
\* being followed into their fragments.
RECURSIVE SelectionAt(_, _)
SelectionAt(sels, path) ==
  LET s == sels[Head(path)] IN
  IF Len(path) = 1 THEN s
  ELSE IF s.kind = "Spread"
  THEN SelectionAt(FindFragment(CDefinitions(doc, cin.operation), s.name, 1).ss.sels,
                   Tail(path))
  ELSE SelectionAt(s.sub.sels, Tail(path))

\* The fragment selections at the top of collectFields, and of
\* collectSubfields, that are traversed with an active @defer.
DeferredAtTop ==
  {<<i>> : i \in {j \in 1..Len(RootSelections) :
                    /\ Traversed(RootSelections[j], cin.runtimeType)
                    /\ ActiveDefer(RootSelections[j])}}
DeferredAtTopOfSubfields ==
  UNION {{<<m, i>> : i \in {j \in 1..Len(ChosenGroup[m].node.sub.sels) :
                              /\ Traversed(ChosenGroup[m].node.sub.sels[j], "Query")
                              /\ ActiveDefer(ChosenGroup[m].node.sub.sels[j])}} :
           m \in {n \in 1..Len(ChosenGroup) : ChosenGroup[n].node.sub # NoSet}}

\* The entries of newDeferUsages are in traversal order and each is the
\* usage of a fragment selection carrying @defer, with its label; the
\* entries for selections at depth `top` are those for `deferred`.
ExactlyTheDeferred(cs, start, top, deferred) ==
  /\ \A u \in 1..Len(cs.newDeferUsages) : \A v \in 1..Len(cs.newDeferUsages) :
       u < v => PositionLess(cs.newDeferUsages[u].at, cs.newDeferUsages[v].at)
  /\ \A u \in 1..Len(cs.newDeferUsages) :
       LET s == SelectionAt(start, cs.newDeferUsages[u].at) IN
       /\ s.kind \in {"Inline", "Spread"}
       /\ s.defer \notin {"none", "false"}
       /\ cs.newDeferUsages[u].label = s.label
  /\ {cs.newDeferUsages[u].at :
        u \in {v \in 1..Len(cs.newDeferUsages) : Len(cs.newDeferUsages[v].at) = top}}
       = deferred

\* C19: when a pass returns, newDeferUsages holds, in traversal order, one
\* entry for each traversed inline fragment or spread with an active
\* @defer, labelled as the selection is, and no other entry.
C19_NewDeferUsagesExact ==
  Collecting =>
    /\ (cout.phase # "start" /\ cout.fields.status = "ok") =>
         ExactlyTheDeferred(cout.fields, RootSelections, 1, DeferredAtTop)
    /\ (cout.phase = "subfields" /\ cout.sub.status = "ok") =>
         ExactlyTheDeferred(cout.sub,
                            [m \in 1..Len(ChosenGroup) |-> ChosenGroup[m].node],
                            2, DeferredAtTopOfSubfields)

(***************************************************************************)
(* Defer attribution (C20).                                                *)
(***************************************************************************)
IsStrictPrefix(p, q) == Len(p) < Len(q) /\ SubSeq(q, 1, Len(p)) = p

\* The defer usage in effect at position p of a pass: that of the innermost
\* fragment enclosing p for which the pass created one, else `start`.
InEffect(cs, p, start) ==
  LET enclosing == {u \in 1..Len(cs.newDeferUsages) :
                      IsStrictPrefix(cs.newDeferUsages[u].at, p)} IN
  IF enclosing = {} THEN start
  ELSE cs.newDeferUsages[CHOOSE u \in enclosing : \A v \in enclosing :
         Len(cs.newDeferUsages[v].at) <= Len(cs.newDeferUsages[u].at)]

\* The identities met following parentDeferUsage from a defer usage until
\* 'not deferred'.
RECURSIVE Ancestry(_)
Ancestry(u) == IF u.kind # "usage" THEN <<>> ELSE <<u.id>> \o Ancestry(u.parentDeferUsage)

Attributed(cs, Start(_)) ==
  /\ \A u \in 1..Len(cs.newDeferUsages) : \A v \in 1..Len(cs.newDeferUsages) :
       u # v => cs.newDeferUsages[u].at # cs.newDeferUsages[v].at
  /\ \A d \in Details(cs) : d.deferUsage = InEffect(cs, d.position, Start(d.position))
  /\ \A u \in 1..Len(cs.newDeferUsages) :
       /\ cs.newDeferUsages[u].parentDeferUsage
            = InEffect(cs, cs.newDeferUsages[u].at, Start(cs.newDeferUsages[u].at))
       /\ \A a \in 1..Len(Ancestry(cs.newDeferUsages[u])) :
            \A b \in 1..Len(Ancestry(cs.newDeferUsages[u])) :
              a # b => Ancestry(cs.newDeferUsages[u])[a] # Ancestry(cs.newDeferUsages[u])[b]

FieldsStartUsage(p) == NoDeferUsage
SubfieldsStartUsage(p) == ChosenGroup[Head(p)].deferUsage

\* C20: in each pass every field detail's deferUsage is the usage of the
\* innermost enclosing fragment the pass deferred, else the pass's starting
\* usage (none for collectFields, the group member's own deferUsage for
\* collectSubfields); every new usage's parentDeferUsage is the usage in
\* effect where its fragment occurs, and its chain of parents ends at 'not
\* deferred' without meeting a usage twice.
C20_DeferAttribution ==
  Collecting =>
    /\ cout.phase # "start" => Attributed(cout.fields, FieldsStartUsage)
    /\ cout.phase = "subfields" => Attributed(cout.sub, SubfieldsStartUsage)

\* collectSubfields ran on a group with a deferred and a not deferred
\* member: it recorded a field under the deferred member's usage, one as
\* not deferred, and created a usage whose parent is the member's usage.
C20_Witness ==
  /\ Collecting
  /\ cout.phase = "subfields"
  /\ cout.sub.status = "ok"
  /\ \E d \in Details(cout.sub) :
       /\ d.deferUsage.kind = "usage"
       /\ d.deferUsage = ChosenGroup[1].deferUsage
  /\ \E d \in Details(cout.sub) : d.deferUsage = NoDeferUsage
  /\ \E u \in 1..Len(cout.sub.newDeferUsages) :
       /\ cout.sub.newDeferUsages[u].parentDeferUsage = ChosenGroup[1].deferUsage
       /\ Len(Ancestry(cout.sub.newDeferUsages[u])) = 2

(***************************************************************************)
(* Stream directives (C21).                                                *)
(***************************************************************************)
ComparedAsPair == doc.fam = "fields" /\ cout # Idle

\* The pair is mutually exclusive: the caller says so, or the parents are
\* different object types.
PairIsExclusive == doc.flag \/ ExclusiveParents(doc.field1, doc.field2)

\* The two fields' @stream usage differs: one streams and the other does
\* not, or both do with different arguments.
StreamsDiffer(node1, node2) ==
  \/ node1.stream.on # node2.stream.on
  \/ /\ node1.stream.on
     /\ ArgumentSet(node1.stream.args) # ArgumentSet(node2.stream.args)

PassesFieldChecks ==
  /\ PairIsExclusive \/ ~NamesOrArgumentsDiffer(doc.field1, doc.field2)
  /\ ~StreamsDiffer(doc.field1.node, doc.field2.node)
  /\ ~(/\ doc.field1.def # NoType
       /\ doc.field2.def # NoType
       /\ ReturnTypesConflict(doc.field1.def, doc.field2.def))

\* What the comparison between the two sub-selection sets finds.
NestedConflicts ==
  findConflictsBetweenSubSelectionSets(
    NewValidatorState, {}, PairIsExclusive,
    doc.field1.def.named, doc.field1.node.sub,
    doc.field2.def.named, doc.field2.node.sub).conflicts

\* The nodes of the nested conflicts' paths on one side, from the n-th
\* conflict on.
RECURSIVE NestedPath(_, _, _)
NestedPath(conflicts, side, n) ==
  IF n > Len(conflicts) THEN <<>>
  ELSE (IF side = 1 THEN conflicts[n].selectionPath1 ELSE conflicts[n].selectionPath2)
       \o NestedPath(conflicts, side, n + 1)

\* C22: for a pair that passes the name, argument, stream and return-type
\* checks, findFieldConflicts returns no conflict when either field has no
\* sub-selection set or the comparison of the two sets finds none, and
\* otherwise one conflict of kind FIELD under the parent's response key
\* whose reason lists the nested reasons in the order found and whose paths
\* are the parent node followed by the nested paths of its side.
C22_SubSelectionConflictsFolded ==
  (ComparedAsPair /\ PassesFieldChecks) =>
    IF doc.field1.node.sub = NoSet \/ doc.field2.node.sub = NoSet
    THEN cout.result = NoConflict
    ELSE IF NestedConflicts = <<>> THEN cout.result = NoConflict
    ELSE /\ cout.result.kind = "FIELD"
         /\ cout.result.name = "k"
         /\ Len(cout.result.sub) = Len(NestedConflicts)
         /\ \A n \in 1..Len(NestedConflicts) :
              /\ cout.result.sub[n].kind = NestedConflicts[n].kind
              /\ cout.result.sub[n].name = NestedConflicts[n].name
              /\ cout.result.sub[n].msg = NestedConflicts[n].msg
              /\ cout.result.sub[n].sub = NestedConflicts[n].sub
         /\ cout.result.selectionPath1
              = <<doc.field1.node>> \o NestedPath(NestedConflicts, 1, 1)
         /\ cout.result.selectionPath2
              = <<doc.field2.node>> \o NestedPath(NestedConflicts, 2, 1)

\* findFieldConflicts folded two nested conflicts, the first of them itself
\* folded from two conflicts one level further down.
C22_Witness ==
  /\ ComparedAsPair
  /\ PassesFieldChecks
  /\ cout.result.kind = "FIELD"
  /\ Len(cout.result.sub) = 2
  /\ cout.result.sub[1].name = "o"
  /\ Len(cout.result.sub[1].sub) = 2
  /\ cout.result.sub[2].msg = "different fields"
  /\ Len(cout.result.selectionPath1) = 5

(***************************************************************************)
(* Symmetry of the comparison between two selection sets (C23).            *)
(***************************************************************************)
ComparedBothWays == doc.fam = "sets" /\ cout # Idle

NodesOf(path) == {path[n] : n \in 1..Len(path)}

\* What a list of conflicts says, whatever their order: response key,
\* reason kind and class, and the nodes on each side.
Reported(conflicts) ==
  {[name |-> conflicts[n].name, kind |-> conflicts[n].kind, msg |-> conflicts[n].msg,
    side1 |-> NodesOf(conflicts[n].selectionPath1),
    side2 |-> NodesOf(conflicts[n].selectionPath2)] : n \in 1..Len(conflicts)}
Swapped(reports) ==
  {[name |-> c.name, kind |-> c.kind, msg |-> c.msg, side1 |-> c.side2, side2 |-> c.side1] :
     c \in reports}

\* C23: from the same caches and not mutually exclusive, comparing set1
\* with set2 ends as comparing set2 with set1 does and reports the same
\* conflicts: the same response keys with the same reason kind and class,
\* the two sides' paths swapped.
C23_ComparisonIsSymmetric ==
  ComparedBothWays =>
    /\ cout.forward.status = cout.backward.status
    /\ Reported(cout.forward.conflicts) = Swapped(Reported(cout.backward.conflicts))

(***************************************************************************)
(* Diagnostics are collected (C24).                                        *)
(***************************************************************************)
\* C24: no SelectionSet visit throws, whatever the document (fragments
\* declaring variables included), so the visitor goes on to the remaining
\* selection sets; every conflict reached the error sink with a "Fields
\* ... conflict" message for a FIELD reason and a "Spreads ... conflict"
\* message for a FRAGMENT_SPREAD reason.
C24_DiagnosticsCollectedNeverThrown ==
  Validating =>
    /\ vstatus = "ok"
    /\ \A n \in 1..Len(errors) :
         errors[n].message = IF errors[n].msg = "have different fragment arguments"
                             THEN "Spreads conflict" ELSE "Fields conflict"

(***************************************************************************)
(* PairSet (C25).                                                          *)
(***************************************************************************)
PairSetUsed == doc.fam = "pairset" /\ cout # Idle

\* What has(a, b, flag) must answer after the add calls made so far: with
\* flag true, whether the unordered pair was added at all; with flag false,
\* whether its most recent add used flag false.
HasAfterAdds(a, b, flag) ==
  /\ {a, b} \in DOMAIN cout.last
  /\ flag \/ ~cout.last[{a, b}]

\* C25: after any sequence of add calls has answers the same for (a, b) and
\* (b, a); has(a, b, true) is true exactly when the unordered pair was
\* added with either flag and has(a, b, false) exactly when its most recent
\* add used flag false, so an add changes the answers of no other pair.
C25_PairSetSymmetricPerPair ==
  PairSetUsed =>
    /\ \A a \in doc.keys : \A b \in doc.keys : \A flag \in BOOLEAN :
         /\ PairSetHas(pairs, a, b, flag) = PairSetHas(pairs, b, a, flag)
         /\ PairSetHas(pairs, a, b, flag) = HasAfterAdds(a, b, flag)
    /\ cout.asked # <<>> =>
         /\ cout.answer = cout.reverse
         /\ cout.answer = HasAfterAdds(cout.asked[1], cout.asked[2], cout.asked[3])

\* After adds that gave one pair flag true and then false and another pair
\* flag true only, has was asked about the first pair with flag false, its
\* keys in descending order, and answered true.
C25_Witness ==
  /\ PairSetUsed
  /\ cout.adds >= 3
  /\ cout.asked # <<>>
  /\ cout.asked[1] # cout.asked[2]
  /\ KeyLt(cout.asked[2], cout.asked[1])
  /\ ~cout.asked[3]
  /\ cout.answer
  /\ \E p \in DOMAIN cout.last : p # {cout.asked[1], cout.asked[2]} /\ cout.last[p]
  /\ \E a \in doc.keys : \E b \in doc.keys : ~PairSetHas(pairs, a, b, TRUE)

(***************************************************************************)
(* What the compared-fragment pair set records (C26).                      *)
(***************************************************************************)
\* The entries the coming visit writes to the pair set: new pairs, and
\* pairs whose flag it changes.
EntriesWritten(st) ==
  {k \in DOMAIN st.pairs : k \notin DOMAIN pairs \/ pairs[k] # st.pairs[k]}

\* The visit compared the field maps of the two fragments with each other
\* under the flag or as not mutually exclusive.
FieldMapsCompared(st, name1, name2, flag) ==
  /\ getFragment(name1).kind # "none"
  /\ getFragment(name2).kind # "none"
  /\ \E c \in st.compared :
       /\ {c[1], c[2]} = {getFragment(name1).ss.id, getFragment(name2).ss.id}
       /\ c[3] = flag \/ ~c[3]

\* C26: whatever a SelectionSet visit writes to the pair set, for the
\* spread keys of two different fragments and a flag, is a pair of fragments
\* that are both defined and whose field maps
\* the visit compared with each other under that flag or as not mutually
\* exclusive.
C26_PairSetRecordsComparedPairs ==
  (Validating /\ vstatus = "ok" /\ vpos < Len(VisitOrder)) =>
    \A k \in EntriesWritten(VisitResult) :
      k[1].name # k[2].name =>
        FieldMapsCompared(VisitResult, k[1].name, k[2].name, VisitResult.pairs[k])

(***************************************************************************)
(* The visited-set protocol of a collection pass (C27).                    *)
(***************************************************************************)
\* The names of the fragments that the first n spreads of the pass expanded
\* without an active @defer.
ExpandedNotDeferred(cs, n) ==
  {cs.spreads[j].name : j \in {k \in 1..n : /\ cs.spreads[k].expanded
                                           /\ ~cs.spreads[k].deferred}}

\* C27: in every collectFields or collectSubfields pass (all members of the
\* field group together), the visited set holds exactly the names of the
\* fragments expanded through a spread without an active @defer, when the
\* pass ends and when it comes to each spread; a spread without an active
\* @defer whose name is in the set is skipped whatever its arguments, so
\* no name is expanded twice through such spreads; a spread with an active
\* @defer is expanded whenever its fragment exists and applies to the
\* type, whether or not its name is in the set.
C27_VisitedSetProtocol ==
  \A cs \in PassResults :
    /\ cs.visitedFragmentNames = ExpandedNotDeferred(cs, Len(cs.spreads))
    /\ \A j \in 1..Len(cs.spreads) :
         LET s == cs.spreads[j] IN
         /\ s.visited = (s.name \in ExpandedNotDeferred(cs, j - 1))
         /\ (~s.deferred /\ s.visited) => ~s.expanded
         /\ (s.deferred /\ s.applies) => s.expanded
    /\ \A j, k \in 1..Len(cs.spreads) :
         (/\ j < k
          /\ cs.spreads[j].name = cs.spreads[k].name
          /\ cs.spreads[j].expanded /\ ~cs.spreads[j].deferred
          /\ ~cs.spreads[k].deferred) => ~cs.spreads[k].expanded

\* A collectSubfields pass that ended normally over a group of two members:
\* the first expanded a spread with arguments, the second skipped a spread of
\* the same fragment without arguments and expanded a deferred spread of it.
C27_Witness ==
  /\ Collecting /\ cout.phase = "subfields" /\ cout.sub.status = "ok"
  /\ \E j, k, m \in 1..Len(cout.sub.spreads) :
       /\ cout.sub.spreads[j].at[1] < cout.sub.spreads[k].at[1]
       /\ cout.sub.spreads[j].name = cout.sub.spreads[k].name
       /\ cout.sub.spreads[j].args # cout.sub.spreads[k].args
       /\ cout.sub.spreads[j].expanded /\ ~cout.sub.spreads[j].deferred
       /\ ~cout.sub.spreads[k].deferred /\ ~cout.sub.spreads[k].expanded
       /\ cout.sub.spreads[m].name = cout.sub.spreads[j].name
       /\ cout.sub.spreads[m].deferred /\ cout.sub.spreads[m].visited
       /\ cout.sub.spreads[m].expanded

(***************************************************************************)
(* The scope collectSubfields gives the fields it descends into (C28).     *)
(***************************************************************************)
\* The fields written directly in the sub-selection sets of the group's
\* members that were collected inside a fragment's expansion: the member,
\* the position of the field in the collectSubfields pass, and the field.
FieldsUnderScopedMembers ==
  UNION {{[member |-> ChosenGroup[m], position |-> <<m, i>>,
           node |-> ChosenGroup[m].node.sub.sels[i]] :
            i \in {n \in 1..Len(ChosenGroup[m].node.sub.sels) :
                     ChosenGroup[m].node.sub.sels[n].kind = "Field"}} :
         m \in {n \in 1..Len(ChosenGroup) :
                  /\ ChosenGroup[n].fragmentVariableValues.defined
                  /\ ChosenGroup[n].node.sub # NoSet}}

\* C28: in a collectSubfields pass that ended normally, a field written in
\* the sub-selection set of a member collected inside a fragment's expansion
\* is collected exactly when its @skip/@include pass under the operation's
\* variables overlaid with the member's fragmentVariableValues, and is
\* recorded with those fragmentVariableValues.
C28_SubfieldsKeepFragmentScope ==
  (Collecting /\ cout.phase = "subfields" /\ cout.sub.status = "ok") =>
    \A fld \in FieldsUnderScopedMembers :
      LET collected == {d \in Details(cout.sub) : d.position = fld.position} IN
      /\ (collected # {}) =
           shouldIncludeNode(
             mergedVariableValues(OperationVariables(cin.x),
                                  fld.member.fragmentVariableValues), fld.node)
      /\ \A d \in collected :
           d.fragmentVariableValues = fld.member.fragmentVariableValues

(***************************************************************************)
(* The variables @defer is resolved against (C29).                         *)
(***************************************************************************)
\* The fields collectFields collected directly inside an inline fragment
\* carrying @defer, within a fragment's expansion: the inline fragment, its
\* position, and the fragment-local scope its fields were recorded with.
FieldsOfScopedDeferInlines ==
  {[inline |-> SelectionAt(RootSelections, SubSeq(d.position, 1, Len(d.position) - 1)),
    at |-> SubSeq(d.position, 1, Len(d.position) - 1),
    scope |-> d.fragmentVariableValues] :
     d \in {e \in Details(cout.fields) :
              /\ Len(e.position) >= 2
              /\ e.fragmentVariableValues.defined
              /\ LET parent == SelectionAt(RootSelections,
                                           SubSeq(e.position, 1, Len(e.position) - 1))
                 IN parent.kind = "Inline" /\ parent.defer # "none"}}

\* C29: in a collectFields pass that ended normally, an inline fragment with
\* @defer inside a fragment's expansion was deferred exactly when the `if`
\* of its @defer is not false under the operation's variables overlaid with
\* the fragment-local scope, the environment a fragment spread's @defer is
\* resolved in.
C29_DeferEnvironmentOnInlineFragments ==
  (Collecting /\ cout.phase = "fields" /\ cout.fields.status = "ok") =>
    \A i \in FieldsOfScopedDeferInlines :
      (\E u \in 1..Len(cout.fields.newDeferUsages) :
         cout.fields.newDeferUsages[u].at = i.at)
      = (getDeferUsage(cin.operation,
                       mergedVariableValues(OperationVariables(cin.x), i.scope),
                       i.inline, NoDeferUsage).kind = "usage")

(***************************************************************************)
(* Termination of field collection with deferred fragment cycles (C30).    *)
(***************************************************************************)
\* C30: on a query, every collectFields and collectSubfields pass ends
\* without recursing without bound, also when a spread closing a fragment
\* cycle carries an active @defer.
C30_CollectionTerminatesWithDeferredCycles ==
  (Collecting /\ cin.operation = "query") =>
    \A cs \in PassResults : cs.status # "overflow"

====
